---- MODULE Spec2Model ----
(***************************************************************************)
(* Order dispatch and fill reconciliation of the trading core              *)
(* (trading/tasks.py, trading/clients.py, trading/models.py).              *)
(*                                                                         *)
(* The store holds one Account and its Order rows.  An Order row is        *)
(* whatever the schema of models.py admits: price is a nullable column, so *)
(* a LIMIT row without a price can be in the store (rows written through   *)
(* QuerySet.update, bulk_create or a fixture do not pass Order.save).      *)
(* Optional (nullable) values are <<>> for None and <<v>> for a value.     *)
(*                                                                         *)
(* Spec follows one order through dispatch runs and stand-alone            *)
(* reconciliation calls, the venue answering anything it can answer.       *)
(* SpecBatch follows a dispatch run over a batch of MaxOrders orders.      *)
(* Dispatch runs do not overlap (one scheduler job, one instance) and no   *)
(* reconciliation call runs inside a dispatch run.                         *)
(***************************************************************************)
EXTENDS Integers, Sequences, FiniteSets, TLC

\* ---- bounds -------------------------------------------------------------
MaxOrders == 2
MaxRuns == 2
MaxChecks == 2
MaxFills == 3
MaxPositions == 2
MaxClock == 48
MaxAccounts == 2
MaxCount == 2

\* ---- value domains ------------------------------------------------------
Null == <<>>
Some(v) == <<v>>
Val(opt) == opt[1]

OrderIds == 1..MaxOrders
Sides == {"BUY", "SELL"}
OrderTypes == {"MARKET", "LIMIT"}
Statuses == {"PENDING", "PARTIALLY_FILLED", "FILLED", "CANCELLED", "REJECTED"}
Quantities == {2}
Prices == {Null, Some(1)}
Limits == {Null, Some(0), Some(1)}

\* Python truthiness of an optional Decimal: None and Decimal('0') are falsy.
Truthy(opt) == opt # Null /\ Val(opt) # 0

\* `x or 0` on an optional Decimal (tasks.py:54).
OrZero(opt) == IF Truthy(opt) THEN Val(opt) ELSE 0

\* Broker rows (models.py Broker): code is the dispatch key of the registry,
\* upbit_in_name is 'upbit' in name.lower(), which check_order_status tests.
Brokers ==
    { [code |-> "UPBIT", is_crypto_exchange |-> TRUE,  upbit_in_name |-> TRUE],
      [code |-> "BINGX", is_crypto_exchange |-> TRUE,  upbit_in_name |-> FALSE],
      [code |-> "KIS",   is_crypto_exchange |-> FALSE, upbit_in_name |-> FALSE],
      [code |-> "NH",    is_crypto_exchange |-> FALSE, upbit_in_name |-> FALSE] }

\* Account rows (models.py Account): credentials as presence flags, the
\* trading policy, and the cached token of the OAuth venue.  An account
\* number is only meaningful for a securities broker, and a cached token
\* only for the OAuth venue; elsewhere they are left unset.
TokenLifetime == 23
Credentials ==
    { [has_api_key_secret |-> TRUE,  has_account_number |-> TRUE],
      [has_api_key_secret |-> FALSE, has_account_number |-> TRUE],
      [has_api_key_secret |-> TRUE,  has_account_number |-> FALSE] }
Policies ==
    [ buy_enabled : BOOLEAN, sell_enabled : BOOLEAN, investment_limit : Limits ]
TokenCaches ==
    { [access_token |-> Null, token_expires_at |-> Null],
      [access_token |-> Some("T0"), token_expires_at |-> Some(TokenLifetime)] }

Account(b, c, p, t) ==
    [ broker |-> b,
      has_api_key_secret |-> c.has_api_key_secret,
      has_account_number |-> c.has_account_number,
      buy_enabled |-> p.buy_enabled,
      sell_enabled |-> p.sell_enabled,
      investment_limit |-> p.investment_limit,
      access_token |-> t.access_token,
      token_expires_at |-> t.token_expires_at ]

Accounts ==
    { a \in { Account(b, c, p, t) : b \in Brokers, c \in Credentials,
                                    p \in Policies, t \in TokenCaches } :
        /\ a.broker.is_crypto_exchange => ~a.has_account_number \/ ~a.has_api_key_secret
        /\ a.access_token # Null =>
               a.broker.code = "KIS" /\ a.has_api_key_secret /\ a.has_account_number
        /\ a.broker.code = "NH" => a.has_api_key_secret /\ a.has_account_number }

VARIABLES
    account,     \* the Account row
    orders,      \* order id -> Order row as persisted in the store
    run,         \* the process_orders invocation: its position and locals
    now,         \* timezone.now(), a logical clock (hours)
    checks,      \* number of stand-alone check_order_status calls so far
    lastOp,      \* what the last handler did: its calls, in order
    daily,       \* the DailyRealizedProfit rows
    triggers,    \* order id -> number of profit recomputations it triggered
    holdings,    \* the Holding rows
    symbols      \* the Symbol rows

vars == <<account, orders, run, now, checks, lastOp, daily, triggers, holdings, symbols>>

\* An Order row as the order-entry API leaves it: PENDING, nothing filled.
NewOrder(side, order_type, q, price) ==
    [ account |-> 1, symbol |-> "A",
      side |-> side, order_type |-> order_type, quantity |-> q,
      price |-> price, status |-> "PENDING", filled_quantity |-> 0,
      average_filled_price |-> Null, filled_at |-> Null,
      external_order_id |-> Null ]

NewOrders ==
    { NewOrder(s, t, q, p) : s \in Sides, t \in OrderTypes, q \in Quantities, p \in Prices }

\* ---- what a venue may answer ---------------------------------------------
TokenResps == {Null, Some("T1")}

\* error "refused": the venue answers the order request with an error;
\* error "timeout": the request raises (timeout, connection failure) and the
\* adapter's except clause returns the failure; error "local": the adapter
\* fails before any order request.
PlaceResps ==
    { [success |-> TRUE,  order_id |-> Some("x1"), error |-> Null],
      [success |-> TRUE,  order_id |-> Null, error |-> Null],
      [success |-> FALSE, order_id |-> Null, error |-> Some("refused")],
      [success |-> FALSE, order_id |-> Null, error |-> Some("timeout")] }

Fills ==
    { [executed_volume |-> 0, avg_price |-> 0],
      [executed_volume |-> 1, avg_price |-> 0],
      [executed_volume |-> 1, avg_price |-> 1] }

\* kind "error": the venue reports an error or the request fails;
\* kind "list": the payload is a JSON list; kind "malformed": a dict whose
\* numeric fields do not convert; kind "dict": a well-formed order payload.
StatusData(kind, state, f, uuid) ==
    [ kind |-> kind, state |-> state, executed_volume |-> f.executed_volume,
      avg_price |-> f.avg_price, uuid |-> uuid ]

NoFill == [executed_volume |-> 0, avg_price |-> 0]

\* A venue order id (uuid) is drawn only with payloads that carry no fill or
\* a complete fill.
StatusResps ==
    { StatusData(k, "wait", NoFill, Null) : k \in {"error", "list", "malformed"} }
    \cup { StatusData("dict", s, f, Null) : s \in {"done", "wait"}, f \in Fills }
    \cup { StatusData("dict", "cancel", NoFill, Null),
           StatusData("dict", "wait", NoFill, Some("u1")),
           StatusData("dict", "done", [executed_volume |-> 1, avg_price |-> 1], Some("u1")) }

VenueResps == [ token : TokenResps, place : PlaceResps, status : StatusResps ]

\* The answers drawn in a batch of several orders: the token request and the
\* order request succeed or fail, the status request fails or reports a
\* complete fill.
BatchStatusResps ==
    { StatusData("error", "wait", NoFill, Null),
      StatusData("dict", "done", [executed_volume |-> 1, avg_price |-> 1], Null) }

BatchPlaceResps ==
    { [success |-> TRUE,  order_id |-> Some("x1"), error |-> Null],
      [success |-> FALSE, order_id |-> Null, error |-> Some("refused")] }

BatchResps == [ token : TokenResps, place : BatchPlaceResps, status : BatchStatusResps ]

\* ---- the handler's local state -------------------------------------------
\* mem: the in-memory Order object; row: the persisted row; acct: the Account;
\* calls: the calls made so far; raised: an exception is propagating.
\* id: the primary key of the order; table: the DailyRealizedProfit rows;
\* checked: check_order_status was entered, with atCheck the row persisted at
\* that moment; triggered: the profit recomputation was called, with
\* atTrigger the row persisted at that moment.
Enter(row, acct) ==
    [ mem |-> row, row |-> row, acct |-> acct, calls |-> <<>>, raised |-> FALSE,
      token |-> Null,
      placeResult |-> [success |-> FALSE, order_id |-> Null, error |-> Some("local")],
      placed |-> FALSE,
      statusResult |-> [success |-> FALSE, data |-> StatusData("error", "wait", NoFill, Null)],
      id |-> 0, table |-> {},
      checked |-> FALSE, atCheck |-> row,
      triggered |-> 0, atTrigger |-> row, profitRaised |-> FALSE ]

\* The handler's state on entry for order o of the store.
EnterOrder(o) == [Enter(orders[o], account) EXCEPT !.id = o, !.table = daily]

\* A call is recorded as <<name, argument>>; the argument of a save is the
\* status it persists, and is empty for the other calls.
Log(st, e) == [st EXCEPT !.calls = Append(@, <<e, "">>)]

LogSave(st, e, status) == [st EXCEPT !.calls = Append(@, <<e, status>>)]

\* ---- models.py -----------------------------------------------------------
\* Order.save: a LIMIT order without a (truthy) price raises ValueError.
SaveRaises(order) == order.order_type = "LIMIT" /\ ~Truthy(order.price)

\* Order.save when it does not raise: fills in filled_at, then persists.
OrderSave(order, t) ==
    IF order.status = "FILLED" /\ order.filled_at = Null
    THEN [order EXCEPT !.filled_at = Some(t)]
    ELSE order

\* order.save() at a call site: persists the object, or raises.
Save(st, t) ==
    IF SaveRaises(st.mem)
    THEN [LogSave(st, "save_raised", st.mem.status) EXCEPT !.raised = TRUE]
    ELSE LET m == OrderSave(st.mem, t)
         IN  [LogSave(st, "save", m.status) EXCEPT !.mem = m, !.row = m]

\* ---- profit_calculator.py -------------------------------------------------
\* Times are hours; a date is the number of the day the hour falls in.
HoursPerDay == 24
DateOf(t) == t \div HoursPerDay

\* realized_profit_rate is a column of 4 decimal places: a rate is held in
\* units of 1/RateScale percent.
RateScale == 10000

\* n / d rounded to the nearest integer, ties to even (d > 0): the rounding
\* of the decimal context.
RoundHalfEven(n, d) ==
    LET q == n \div d
        r == n % d
    IN  IF 2 * r < d THEN q
        ELSE IF 2 * r > d THEN q + 1
        ELSE IF q % 2 = 0 THEN q ELSE q + 1

\* (realized_profit / total_sell_amount) * 100 in units of 1/RateScale
\* percent; the whole percents are split off before scaling.
Rate(realized_profit, total_sell_amount) ==
    LET n == realized_profit * 100
    IN  (n \div total_sell_amount) * RateScale
          + RoundHalfEven((n % total_sell_amount) * RateScale, total_sell_amount)

\* `not order.filled_quantity or not order.average_filled_price` is false.
FillKnown(order) == order.filled_quantity # 0 /\ Truthy(order.average_filled_price)

\* The ids of S ordered by filled_at (order_by('filled_at')); rows that fill
\* at the same time are taken in id order.
RECURSIVE OrderByFilledAt(_, _)
OrderByFilledAt(rows, S) ==
    IF S = {} THEN <<>>
    ELSE LET m == CHOOSE x \in S : \A y \in S :
                      \/ Val(rows[x].filled_at) < Val(rows[y].filled_at)
                      \/ Val(rows[x].filled_at) = Val(rows[y].filled_at) /\ x <= y
         IN  <<m>> \o OrderByFilledAt(rows, S \ {m})

\* The queryset buy_orders of calculate_realized_profit_for_order.
buy_orders(rows, sell) ==
    OrderByFilledAt(rows,
        { b \in DOMAIN rows :
            /\ rows[b].account = sell.account
            /\ rows[b].symbol = sell.symbol
            /\ rows[b].side = "BUY"
            /\ rows[b].status = "FILLED"
            /\ rows[b].filled_at # Null
            /\ sell.filled_at # Null
            /\ Val(rows[b].filled_at) < Val(sell.filled_at) })

\* The loop over buy_orders: Decimal(str(buy_order.average_filled_price))
\* raises when the price of the buy is None.
RECURSIVE MatchBuys(_, _, _, _)
MatchBuys(rows, buys, remaining_sell_quantity, total_cost) ==
    IF buys = <<>> \/ remaining_sell_quantity <= 0
    THEN [raised |-> FALSE, total_cost |-> total_cost]
    ELSE LET buy_order == rows[Head(buys)]
             buy_quantity == buy_order.filled_quantity
         IN  IF buy_order.average_filled_price = Null
             THEN [raised |-> TRUE, total_cost |-> total_cost]
             ELSE LET buy_price == Val(buy_order.average_filled_price)
                  IN  IF remaining_sell_quantity >= buy_quantity
                      THEN MatchBuys(rows, Tail(buys),
                                     remaining_sell_quantity - buy_quantity,
                                     total_cost + buy_quantity * buy_price)
                      ELSE MatchBuys(rows, Tail(buys), 0,
                                     total_cost + remaining_sell_quantity * buy_price)

\* calculate_realized_profit_for_order(sell_order) over the persisted rows.
calculate_realized_profit_for_order(rows, sell_order) ==
    IF sell_order.side # "SELL" \/ sell_order.status # "FILLED"
    THEN [raised |-> FALSE, value |-> 0]
    ELSE IF ~FillKnown(sell_order)
    THEN [raised |-> FALSE, value |-> 0]
    ELSE LET sell_quantity == sell_order.filled_quantity
             sell_price == Val(sell_order.average_filled_price)
             realized_profit(m) ==
                 [raised |-> m.raised,
                  value |-> sell_quantity * sell_price - m.total_cost]
         IN  realized_profit(MatchBuys(rows, buy_orders(rows, sell_order),
                                       sell_quantity, 0))

\* The queryset sell_orders of calculate_daily_realized_profit.
sell_orders(rows, acct, target_date) ==
    { o \in DOMAIN rows :
        /\ rows[o].account = acct
        /\ rows[o].side = "SELL"
        /\ rows[o].status = "FILLED"
        /\ rows[o].filled_at # Null
        /\ Val(rows[o].filled_at) >= target_date * HoursPerDay
        /\ Val(rows[o].filled_at) < (target_date + 1) * HoursPerDay }

\* The loop over sell_orders, accumulating the totals.
RECURSIVE SumSells(_, _, _)
SumSells(rows, S, acc) ==
    IF S = {} \/ acc.raised THEN acc
    ELSE LET o == CHOOSE x \in S : \A y \in S : x <= y
             sell_order == rows[o]
             sell_amount == IF FillKnown(sell_order)
                            THEN sell_order.filled_quantity
                                   * Val(sell_order.average_filled_price)
                            ELSE 0
             added(p) ==
                 [ raised |-> p.raised,
                   realized_profit |-> acc.realized_profit + p.value,
                   total_sell_amount |-> acc.total_sell_amount + sell_amount ]
         IN  SumSells(rows, S \ {o},
                 added(calculate_realized_profit_for_order(rows, sell_order)))

calculate_daily_realized_profit(rows, acct, target_date) ==
    LET totals(acc) ==
            [ raised |-> acc.raised,
              realized_profit |-> acc.realized_profit,
              total_buy_amount |-> 0,
              total_sell_amount |-> acc.total_sell_amount,
              realized_profit_rate |->
                  IF acc.total_sell_amount > 0
                  THEN Rate(acc.realized_profit, acc.total_sell_amount)
                  ELSE 0 ]
    IN  totals(SumSells(rows, sell_orders(rows, acct, target_date),
                   [raised |-> FALSE, realized_profit |-> 0, total_sell_amount |-> 0]))

\* DailyRealizedProfit.objects.update_or_create(account, date, defaults).
\* The row of the key is overwritten with the defaults; when there is none, a
\* row with a fresh id is inserted (unique_together keeps the key single).
DailyRow(id, acct, target_date, defaults) ==
    [ id |-> id, account |-> acct, date |-> target_date,
      realized_profit |-> defaults.realized_profit,
      realized_profit_rate |-> defaults.realized_profit_rate,
      total_buy_amount |-> defaults.total_buy_amount,
      total_sell_amount |-> defaults.total_sell_amount ]

update_or_create(table, acct, target_date, defaults) ==
    LET found == { r \in table : r.account = acct /\ r.date = target_date }
    IN  IF found = {}
        THEN table \cup { DailyRow(Cardinality(table) + 1, acct, target_date, defaults) }
        ELSE (table \ found)
               \cup { DailyRow(r.id, acct, target_date, defaults) : r \in found }

\* update_daily_realized_profit(account, target_date): the table afterwards,
\* untouched when the computation raised.
update_daily_realized_profit(rows, table, acct, target_date) ==
    LET stored(profit_data) ==
            IF profit_data.raised
            THEN [raised |-> TRUE, table |-> table]
            ELSE [raised |-> FALSE,
                  table |-> update_or_create(table, acct, target_date, profit_data)]
    IN  stored(calculate_daily_realized_profit(rows, acct, target_date))

\* ---- clients.py ----------------------------------------------------------
UpbitClient(acct) ==
    IF ~acct.has_api_key_secret THEN "ValueError" ELSE "UpbitClient"

BingXClient(acct) ==
    IF ~acct.has_api_key_secret THEN "ValueError" ELSE "BingXClient"

\* KisClient.__init__ as it would be without the check of the account number.
KisClient_unnumbered(acct) ==
    IF ~acct.has_api_key_secret THEN "ValueError" ELSE "KisClient"

KisClient(acct) ==
    IF ~acct.has_api_key_secret THEN "ValueError"
    ELSE IF ~acct.has_account_number THEN "ValueError"
    ELSE "KisClient"

\* str.upper() on the broker codes of the model.
upper(code) ==
    CASE code = "upbit" -> "UPBIT"
      [] code = "bingx" -> "BINGX"
      [] code = "kis" -> "KIS"
      [] OTHER -> code

get_broker_client(acct) ==
    LET broker_code == upper(acct.broker.code)
    IN  IF acct.broker.is_crypto_exchange
        THEN IF broker_code = "UPBIT" THEN UpbitClient(acct)
             ELSE IF broker_code = "BINGX" THEN BingXClient(acct)
             ELSE "ValueError"
        ELSE IF broker_code = "KIS" THEN KisClient(acct)
             ELSE "ValueError"

\* KisClient._get_access_token: reuse the cached token while it is unexpired,
\* otherwise request one and cache it on the Account.
\* The test that opens _get_access_token, on the adapter's Account object.
token_unexpired(acct, t) ==
    /\ acct.access_token # Null
    /\ acct.token_expires_at # Null
    /\ t < Val(acct.token_expires_at)

\* _get_access_token as it would be without the test of the cached token.
get_access_token_uncached(st, vr, t) ==
    IF vr.token # Null
    THEN [Log(st, "http_token") EXCEPT
             !.acct.access_token = vr.token,
             !.acct.token_expires_at = Some(t + TokenLifetime),
             !.token = vr.token]
    ELSE [Log(st, "http_token") EXCEPT !.token = Null]

get_access_token(st, vr, t) ==
    IF token_unexpired(st.acct, t)
    THEN [st EXCEPT !.token = st.acct.access_token]
    ELSE IF vr.token # Null
         THEN [Log(st, "http_token") EXCEPT
                  !.acct.access_token = vr.token,
                  !.acct.token_expires_at = Some(t + TokenLifetime),
                  !.token = vr.token]
         ELSE [Log(st, "http_token") EXCEPT !.token = Null]

PlaceFailure == [success |-> FALSE, order_id |-> Null, error |-> Some("local")]

\* UpbitClient.place_order: float(order.price) raises on None for a LIMIT
\* order, which the method turns into a failure before any request.
UpbitClient_place_order(st, vr) ==
    IF st.mem.order_type = "LIMIT" /\ st.mem.price = Null
    THEN [st EXCEPT !.placeResult = PlaceFailure]
    ELSE [Log(st, "http_order") EXCEPT !.placeResult = vr.place]

\* BingXClient.place_order: a LIMIT order without price fails locally.
BingXClient_place_order(st, vr) ==
    IF st.mem.order_type = "LIMIT" /\ ~Truthy(st.mem.price)
    THEN [st EXCEPT !.placeResult = PlaceFailure]
    ELSE [Log(st, "http_order") EXCEPT !.placeResult = vr.place]

\* KisClient.place_order: token first, then the order with ORD_UNPR "0" when
\* the order has no price.
KisClient_place_order(st, vr, t) ==
    LET s1 == get_access_token(st, vr, t)
    IN  IF s1.token = Null
        THEN [s1 EXCEPT !.placeResult = PlaceFailure]
        ELSE [Log(s1, "http_order") EXCEPT !.placeResult = vr.place]

place_order(client, st, vr, t) ==
    LET s0 == [Log(st, "place_order") EXCEPT !.placed = TRUE]
    IN  IF client = "UpbitClient" THEN UpbitClient_place_order(s0, vr)
        ELSE IF client = "BingXClient" THEN BingXClient_place_order(s0, vr)
        ELSE KisClient_place_order(s0, vr, t)

StatusOf(vr) == [success |-> vr.status.kind # "error", data |-> vr.status]

StatusFailure == [success |-> FALSE, data |-> StatusData("error", "wait", NoFill, Null)]

UpbitClient_get_order_status(st, vr) ==
    [Log(st, "http_status") EXCEPT !.statusResult = StatusOf(vr)]

BingXClient_get_order_status(st, vr) ==
    [Log(st, "http_status") EXCEPT !.statusResult = StatusOf(vr)]

KisClient_get_order_status(st, vr, t) ==
    LET s1 == get_access_token(st, vr, t)
    IN  IF s1.token = Null
        THEN [s1 EXCEPT !.statusResult = StatusFailure]
        ELSE [Log(s1, "http_status") EXCEPT !.statusResult = StatusOf(vr)]

get_order_status(client, st, vr, t) ==
    LET s0 == Log(st, "get_order_status")
    IN  IF client = "UpbitClient" THEN UpbitClient_get_order_status(s0, vr)
        ELSE IF client = "BingXClient" THEN BingXClient_get_order_status(s0, vr)
        ELSE KisClient_get_order_status(s0, vr, t)

\* ---- tasks.py ------------------------------------------------------------
\* ProfitCalculator.update_daily_realized_profit(order.account,
\* order.filled_at.date()) as check_order_status calls it: it reads the rows
\* persisted at that moment, and an exception it raises is caught.
ProfitTrigger(st, t) ==
    LET rows == [orders EXCEPT ![st.id] = st.row]
        called(res) ==
            [Log(st, "update_daily_realized_profit") EXCEPT
                !.table = res.table,
                !.triggered = @ + 1,
                !.atTrigger = st.row,
                !.profitRaised = res.raised]
    IN  called(update_daily_realized_profit(rows, st.table, st.mem.account, DateOf(t)))

\* check_order_status, the branch for a crypto exchange whose name contains
\* 'upbit': maps the payload onto the in-memory order (before the save).
UpbitMapping(st, data, t) ==
    LET order == st.mem
        s1 == IF data.uuid # Null /\ order.external_order_id = Null
              THEN [st EXCEPT !.mem.external_order_id = data.uuid]
              ELSE st
        avg == IF data.avg_price > 0 THEN Some(data.avg_price) ELSE Null
    IN  IF data.state = "done"
        THEN LET was_filled == order.status = "FILLED"
                 s2 == [s1 EXCEPT !.mem.status = "FILLED",
                                  !.mem.filled_quantity = data.executed_volume,
                                  !.mem.average_filled_price = avg,
                                  !.mem.filled_at = Some(t)]
             IN  IF ~was_filled /\ order.side = "SELL"
                 THEN ProfitTrigger(s2, t)
                 ELSE s2
        ELSE IF data.state = "cancel"
        THEN [s1 EXCEPT !.mem.status = "CANCELLED"]
        ELSE IF data.executed_volume > 0
        THEN [s1 EXCEPT !.mem.status = "PARTIALLY_FILLED",
                        !.mem.filled_quantity = data.executed_volume,
                        !.mem.average_filled_price = avg]
        ELSE s1

\* The save that ends check_order_status: an exception it raises is caught
\* by the function's own handler, so nothing is persisted and nothing escapes.
SaveCaught(st, t) ==
    LET s == Save(st, t) IN [s EXCEPT !.raised = FALSE]

\* check_order_status as it would be if a failed status query rejected the
\* order.
check_order_status_rejecting(st, client, vr, t) ==
    LET s0 == [Log(st, "check_order_status") EXCEPT !.checked = TRUE, !.atCheck = st.row]
        s1 == IF client = "None" THEN Log(s0, "get_broker_client") ELSE s0
        c == IF client = "None" THEN get_broker_client(st.acct) ELSE client
        after_status(s2) ==
            LET data == s2.statusResult.data
            IN  IF ~s2.statusResult.success
                THEN SaveCaught([s2 EXCEPT !.mem.status = "REJECTED"], t)
                ELSE IF st.acct.broker.is_crypto_exchange /\ st.acct.broker.upbit_in_name
                THEN IF data.kind = "malformed" THEN s2
                     ELSE IF data.kind = "list" THEN SaveCaught(s2, t)
                     ELSE SaveCaught(UpbitMapping(s2, data, t), t)
                ELSE IF data.kind = "list" THEN s2
                     ELSE SaveCaught(s2, t)
    IN  IF c = "ValueError" THEN s1
        ELSE after_status(get_order_status(c, s1, vr, t))

\* check_order_status(order, client): client is "None" when not supplied.
check_order_status(st, client, vr, t) ==
    LET s0 == [Log(st, "check_order_status") EXCEPT !.checked = TRUE, !.atCheck = st.row]
        s1 == IF client = "None" THEN Log(s0, "get_broker_client") ELSE s0
        c == IF client = "None" THEN get_broker_client(st.acct) ELSE client
        after_status(s2) ==
            LET data == s2.statusResult.data
            IN  IF ~s2.statusResult.success THEN s2
                ELSE IF st.acct.broker.is_crypto_exchange /\ st.acct.broker.upbit_in_name
                THEN IF data.kind = "malformed" THEN s2
                     ELSE IF data.kind = "list" THEN SaveCaught(s2, t)
                     ELSE SaveCaught(UpbitMapping(s2, data, t), t)
                ELSE IF data.kind = "list" THEN s2
                     ELSE SaveCaught(s2, t)
    IN  IF c = "ValueError" THEN s1
        ELSE after_status(get_order_status(c, s1, vr, t))

\* order.status = REJECTED; order.save()
Reject(st, t) == Save([st EXCEPT !.mem.status = "REJECTED"], t)

\* The body of the try block of process_order; raised tells that it was left
\* by an exception (the ValueError of the registry or of a save).
process_order_try(st, vr, t) ==
    LET s1 == Log(st, "get_broker_client")
        client == get_broker_client(st.acct)
        after_save(s4) ==
            IF s4.raised THEN s4
            ELSE check_order_status(s4, client, vr, t)
        after_place(s2) ==
            IF s2.placeResult.success
            THEN LET s3 == [s2 EXCEPT
                              !.mem.external_order_id =
                                  IF s2.placeResult.order_id # Null
                                  THEN s2.placeResult.order_id ELSE @,
                              !.mem.status = "PARTIALLY_FILLED"]
                 IN  after_save(Save(s3, t))
            ELSE Reject(s2, t)
    IN  IF client = "ValueError" THEN [s1 EXCEPT !.raised = TRUE]
        ELSE after_place(place_order(client, s1, vr, t))

process_order(st, vr, t) ==
    LET order == st.mem
        acct == st.acct
        after_try(body) ==
            IF body.raised
            THEN Reject([body EXCEPT !.raised = FALSE], t)
            ELSE body
    IN  IF order.side = "BUY" /\ ~acct.buy_enabled THEN Reject(st, t)
        ELSE IF order.side = "SELL" /\ ~acct.sell_enabled THEN Reject(st, t)
        ELSE IF /\ Truthy(acct.investment_limit)
                /\ order.side = "BUY"
                /\ order.quantity * OrZero(order.price) > Val(acct.investment_limit)
        THEN Reject(st, t)
        ELSE after_try(process_order_try(st, vr, t))

\* One iteration of the loop of process_orders, given the state s1 in which
\* process_order ended: the handler rejects and saves the order when
\* process_order raised.
process_orders_iteration(s1, t) ==
    IF s1.raised
    THEN Reject([s1 EXCEPT !.raised = FALSE], t)
    ELSE s1

\* The count as it would be if only the orders that were not rejected were
\* counted.
processed_count_succeeded(count, s1) ==
    IF s1.raised \/ s1.row.status = "REJECTED" THEN count ELSE count + 1

\* processed_count after an iteration: incremented when process_order
\* returned, not when it raised.
processed_count_after(count, s1) ==
    IF s1.raised THEN count ELSE count + 1

\* Order.objects.filter(status=PENDING) under Meta.ordering = ['-created_at']:
\* the PENDING ids, newest (highest id) first.
RECURSIVE Descending(_)
Descending(S) ==
    IF S = {} THEN <<>>
    ELSE LET m == CHOOSE x \in S : \A y \in S : y <= x
         IN  <<m>> \o Descending(S \ {m})

pending_orders == Descending({ o \in DOMAIN orders : orders[o].status = "PENDING" })

IdleRun == [ pc |-> "idle", batch |-> <<>>, processed_count |-> 0,
             picked |-> {}, ret |-> Null, n |-> 0 ]

NoRow == [status |-> "none"]

NoOp == [ op |-> "none", order |-> 0, calls |-> <<>>, placed |-> FALSE,
          placeResult |-> PlaceFailure, escaped |-> FALSE,
          checked |-> FALSE, atCheck |-> NoRow, statusResult |-> StatusFailure,
          triggered |-> 0, atTrigger |-> NoRow, profitRaised |-> FALSE ]

\* The record of a handler that ended in st: escaped tells that an exception
\* left it.
Op(name, o, st) ==
    [ op |-> name, order |-> o, calls |-> st.calls, placed |-> st.placed,
      placeResult |-> st.placeResult, escaped |-> st.raised,
      checked |-> st.checked,
      atCheck |-> IF st.checked THEN st.atCheck ELSE NoRow,
      statusResult |-> st.statusResult,
      triggered |-> st.triggered,
      atTrigger |-> IF st.triggered > 0 THEN st.atTrigger ELSE NoRow,
      profitRaised |-> st.profitRaised ]

\* One order in the store: the life of an order under dispatch runs and
\* stand-alone reconciliation calls.
Init ==
    /\ account \in Accounts
    /\ orders \in [{1} -> NewOrders]
    /\ run = IdleRun
    /\ now = 1
    /\ checks = 0
    /\ lastOp = NoOp
    /\ daily = {}
    /\ triggers = [o \in DOMAIN orders |-> 0]
    /\ holdings = {}
    /\ symbols = {}

\* MaxOrders orders in the store: a dispatch run over a batch.
InitBatch ==
    /\ account \in Accounts
    /\ orders \in [OrderIds -> NewOrders]
    /\ run = IdleRun
    /\ now = 1
    /\ checks = 0
    /\ lastOp = NoOp
    /\ daily = {}
    /\ triggers = [o \in DOMAIN orders |-> 0]
    /\ holdings = {}
    /\ symbols = {}

\* process_orders up to the loop: the queryset is evaluated.
StartRun ==
    /\ run.pc # "loop"
    /\ run.n < MaxRuns
    /\ run' = [ pc |-> "loop", batch |-> pending_orders, processed_count |-> 0,
                picked |-> { o \in DOMAIN orders : orders[o].status = "PENDING" },
                ret |-> Null, n |-> run.n + 1 ]
    /\ lastOp' = [NoOp EXCEPT !.op = "process_orders"]
    /\ UNCHANGED <<account, orders, now, checks, daily, triggers, holdings, symbols>>

\* One iteration of the loop of process_orders on the next order of the
\* batch, the venue answering from Resps.
Iterate(Resps) ==
    /\ run.pc = "loop"
    /\ run.batch # <<>>
    /\ \E vr \in Resps :
         LET o == Head(run.batch)
             iterated(s1, s2) ==
                 /\ orders' = [orders EXCEPT ![o] = s2.row]
                 /\ account' = s2.acct
                 /\ daily' = s2.table
                 /\ triggers' = [triggers EXCEPT ![o] = @ + s2.triggered]
                 /\ run' = IF s2.raised
                           THEN [run EXCEPT !.pc = "raised", !.batch = Tail(@)]
                           ELSE [run EXCEPT !.batch = Tail(@),
                                            !.processed_count =
                                                processed_count_after(@, s1)]
                 /\ lastOp' = Op("process_order", o, s2)
             processed(s1) == iterated(s1, process_orders_iteration(s1, now))
         IN  processed(process_order(EnterOrder(o), vr, now))
    /\ now' = now + 1
    /\ UNCHANGED <<checks, holdings, symbols>>

ProcessNext == Iterate(VenueResps)

ProcessNextOfBatch == Iterate(BatchResps)

\* The loop is over: return processed_count.
FinishRun ==
    /\ run.pc = "loop"
    /\ run.batch = <<>>
    /\ run' = [run EXCEPT !.pc = "returned", !.ret = Some(run.processed_count)]
    /\ lastOp' = [NoOp EXCEPT !.op = "return"]
    /\ UNCHANGED <<account, orders, now, checks, daily, triggers, holdings, symbols>>

\* A stand-alone reconciliation call check_order_status(order) on any order.
CheckOrderStatus(o) ==
    /\ run.pc # "loop"
    /\ checks < MaxChecks
    /\ \E tk \in TokenResps, sr \in StatusResps :
         LET vr == [token |-> tk, place |-> PlaceFailure, status |-> sr]
             checked(s) ==
                 /\ orders' = [orders EXCEPT ![o] = s.row]
                 /\ account' = s.acct
                 /\ daily' = s.table
                 /\ triggers' = [triggers EXCEPT ![o] = @ + s.triggered]
                 /\ lastOp' = Op("check_order_status", o, s)
         IN  checked(check_order_status(EnterOrder(o), "None", vr, now))
    /\ checks' = checks + 1
    /\ now' = now + 1
    /\ UNCHANGED <<run, holdings, symbols>>

Next ==
    \/ StartRun
    \/ ProcessNext
    \/ FinishRun
    \/ \E o \in DOMAIN orders : CheckOrderStatus(o)

Spec == Init /\ [][Next]_vars

NextBatch ==
    \/ StartRun
    \/ ProcessNextOfBatch
    \/ FinishRun

SpecBatch == InitBatch /\ [][NextBatch]_vars

\* ---- the profit calculator on a store of fills ----------------------------
\* An Order row as the reconciler leaves it: filled_at is set on FILLED rows
\* only, and the average price of a fill is None when the venue reported a
\* non-positive one.
FilledOrder(acct, symbol, side, status, q, price, t) ==
    [ account |-> acct, symbol |-> symbol,
      side |-> side, order_type |-> "MARKET", quantity |-> q,
      price |-> Null, status |-> status, filled_quantity |-> q,
      average_filled_price |-> price, filled_at |-> t,
      external_order_id |-> Some("x1") ]

\* The rows drawn for the store.  Two different BUY rows of one account and
\* symbol never fill at the same time, so the order of buy_orders is fixed.
FilledOrders ==
    { FilledOrder(1, "A", "BUY",  "FILLED", 10, Some(100), Some(1)),
      FilledOrder(1, "A", "BUY",  "FILLED", 5,  Some(100), Some(2)),
      FilledOrder(1, "A", "BUY",  "FILLED", 5,  Some(120), Some(3)),
      FilledOrder(1, "A", "BUY",  "FILLED", 5,  Null,      Some(4)),
      FilledOrder(1, "A", "BUY",  "FILLED", 5,  Some(100), Some(5)),
      FilledOrder(1, "A", "BUY",  "PARTIALLY_FILLED", 5, Some(100), Null),
      FilledOrder(1, "B", "BUY",  "FILLED", 5,  Some(100), Some(2)),
      FilledOrder(2, "A", "BUY",  "FILLED", 5,  Some(100), Some(2)),
      FilledOrder(1, "A", "SELL", "FILLED", 10, Some(150), Some(5)),
      FilledOrder(1, "A", "SELL", "FILLED", 10, Null,      Some(5)),
      FilledOrder(1, "A", "SELL", "PARTIALLY_FILLED", 10, Some(150), Null),
      FilledOrder(1, "A", "SELL", "FILLED", 5,  Some(150), Some(29)) }

AccountIds == {1, 2}
Dates == {0, 1}

\* A store of MaxFills orders; the jobs and views call the calculator on it.
InitProfit ==
    /\ account \in { a \in Accounts : a.broker.code = "UPBIT" /\ a.has_api_key_secret
                                      /\ a.buy_enabled /\ a.sell_enabled
                                      /\ a.investment_limit = Null }
    /\ orders \in [1..MaxFills -> FilledOrders]
    /\ run = IdleRun
    /\ now = 2 * HoursPerDay
    /\ checks = 0
    /\ lastOp = NoOp
    /\ daily = {}
    /\ triggers = [o \in 1..MaxFills |-> 0]
    /\ holdings = {}
    /\ symbols = {}

\* ProfitCalculator.calculate_realized_profit_for_order(sell_order)
CalculateForOrder(o) ==
    /\ lastOp' = [ op |-> "calculate_realized_profit_for_order", order |-> o,
                   result |-> calculate_realized_profit_for_order(orders, orders[o]) ]
    /\ UNCHANGED <<account, orders, run, now, checks, daily, triggers, holdings, symbols>>

\* ProfitCalculator.calculate_daily_realized_profit(account, target_date)
CalculateDaily(acct, target_date) ==
    /\ lastOp' = [ op |-> "calculate_daily_realized_profit",
                   account |-> acct, date |-> target_date,
                   result |-> calculate_daily_realized_profit(orders, acct, target_date) ]
    /\ UNCHANGED <<account, orders, run, now, checks, daily, triggers, holdings, symbols>>

\* ProfitCalculator.update_daily_realized_profit(account, target_date), as
\* the daily job and the reconciler run it; run.n counts the runs.
UpdateDaily(acct, target_date) ==
    /\ run.n < MaxRuns
    /\ LET res == update_daily_realized_profit(orders, daily, acct, target_date)
       IN  /\ daily' = res.table
           /\ lastOp' = [ op |-> "update_daily_realized_profit",
                          account |-> acct, date |-> target_date,
                          raised |-> res.raised ]
    /\ run' = [run EXCEPT !.n = @ + 1]
    /\ UNCHANGED <<account, orders, now, checks, triggers, holdings, symbols>>

NextProfit ==
    \/ \E o \in DOMAIN orders : CalculateForOrder(o)
    \/ \E a \in AccountIds, d \in Dates : CalculateDaily(a, d)
    \/ \E a \in AccountIds, d \in Dates : UpdateDaily(a, d)

SpecProfit == InitProfit /\ [][NextProfit]_vars

\* ---- tasks.py update_holdings, models.py Holding and Symbol ----------------
\* A position of an adapter's snapshot.  Every adapter reports total_value as
\* quantity x current_price (0 when it has no price); ticker "" is a missing
\* ticker.
Position(ticker, q, current_price, average_price, currency) ==
    [ ticker |-> ticker, quantity |-> q, current_price |-> current_price,
      average_price |-> average_price, total_value |-> q * current_price,
      currency |-> currency ]

Positions ==
    { Position("X", 2, 60, 50, "KRW"),
      Position("X", 2, 0,  50, "USD"),
      Position("X", 2, 60, 0,  "KRW"),
      Position("X", 2, 0,  0,  "USDT"),
      Position("X", 0, 60, 50, "KRW"),
      Position("Y", 3, 60, 50, "USD"),
      Position("Y", 0, 0,  0,  "USD"),
      Position("",  2, 60, 50, "KRW") }

RECURSIVE SeqsUpTo(_, _)
SeqsUpTo(S, n) ==
    IF n = 0 THEN {<<>>}
    ELSE LET shorter == SeqsUpTo(S, n - 1)
         IN  shorter \cup { Append(q, x) : q \in shorter, x \in S }

Snapshots == SeqsUpTo(Positions, MaxPositions)

\* Holding.save: total_value, profit_loss and profit_rate are recomputed from
\* quantity and the two prices before the row is written.
HoldingSave(h) ==
    LET total_value ==
            IF h.quantity > 0 /\ h.current_price > 0 THEN h.quantity * h.current_price
            ELSE IF h.quantity > 0 /\ h.average_price > 0 THEN h.quantity * h.average_price
            ELSE h.total_value
    IN  IF h.quantity > 0 /\ h.average_price > 0
        THEN LET cost == h.quantity * h.average_price
                 value == IF h.current_price > 0 THEN h.quantity * h.current_price
                          ELSE cost
             IN  [h EXCEPT !.total_value = total_value,
                           !.profit_loss = value - cost,
                           !.profit_rate = IF cost > 0 THEN Rate(value - cost, cost) ELSE 0]
        ELSE [h EXCEPT !.total_value = total_value,
                       !.profit_loss = 0,
                       !.profit_rate = 0]

\* Holding.objects.update_or_create(account, symbol, defaults): the row of the
\* key takes the defaults, or a row is created with them; either way it is
\* written through Holding.save.
Holding_update_or_create(table, acct, ticker, defaults) ==
    LET found == { h \in table : h.account = acct /\ h.ticker = ticker }
        fresh == [ account |-> acct, ticker |-> ticker, quantity |-> 0,
                   average_price |-> 0, current_price |-> 0, total_value |-> 0,
                   profit_loss |-> 0, profit_rate |-> 0 ]
        write(h) == HoldingSave([h EXCEPT !.quantity = defaults.quantity,
                                          !.current_price = defaults.current_price,
                                          !.average_price = defaults.average_price,
                                          !.total_value = defaults.total_value])
    IN  IF found = {} THEN table \cup { write(fresh) }
        ELSE (table \ found) \cup { write(h) : h \in found }

\* The currency of the Symbol for a reported currency code.
symbol_currency(currency, acct) ==
    IF currency = "USD" THEN "USD"
    ELSE IF currency = "USDT" THEN "USDT"
    ELSE IF acct.broker.is_crypto_exchange THEN "USDT" ELSE "KRW"

\* Symbol.objects.get_or_create(ticker, defaults) followed by the correction
\* of the currency of an existing Symbol.
Symbol_get_or_create(table, ticker, currency) ==
    { y \in table : y.ticker # ticker } \cup { [ticker |-> ticker, currency |-> currency] }

\* The current price as reported, without the fallback.
reported_current_price(current_price, average_price) == current_price

effective_current_price(current_price, average_price) ==
    IF current_price = 0 /\ average_price > 0 THEN average_price ELSE current_price

effective_average_price(current_price, average_price) ==
    IF average_price = 0 /\ current_price > 0 THEN current_price ELSE average_price

\* The body of the loop of update_holdings for one position; st holds the
\* Holding rows, the Symbol rows and current_tickers.
update_position(st, acct, id, holding_info) ==
    IF holding_info.ticker = "" THEN st
    ELSE LET s1 == [st EXCEPT !.symbols =
                        Symbol_get_or_create(@, holding_info.ticker,
                            symbol_currency(holding_info.currency, acct))]
             quantity == holding_info.quantity
             cur == effective_current_price(holding_info.current_price,
                                            holding_info.average_price)
             avg == effective_average_price(holding_info.current_price,
                                            holding_info.average_price)
             total_value ==
                 IF holding_info.total_value = 0 /\ quantity > 0
                 THEN IF cur > 0 THEN quantity * cur
                      ELSE IF avg > 0 THEN quantity * avg
                      ELSE 0
                 ELSE holding_info.total_value
         IN  IF quantity > 0
             THEN [s1 EXCEPT
                     !.current_tickers = @ \cup {holding_info.ticker},
                     !.holdings = Holding_update_or_create(@, id, holding_info.ticker,
                                      [ quantity |-> quantity, current_price |-> cur,
                                        average_price |-> avg,
                                        total_value |-> total_value ])]
             ELSE s1

RECURSIVE update_positions(_, _, _, _)
update_positions(st, acct, id, holdings_data) ==
    IF holdings_data = <<>> THEN st
    ELSE update_positions(update_position(st, acct, id, Head(holdings_data)),
                          acct, id, Tail(holdings_data))

\* The rows as they are without the final delete.
keep_closed(table, id, current_tickers) == table

\* Holding.objects.filter(account).exclude(symbol__ticker__in=current_tickers)
\* .delete()
delete_closed(table, id, current_tickers) ==
    { h \in table : h.account # id \/ h.ticker \in current_tickers }

\* update_holdings(account, holdings_data) for the account with primary key
\* id: the Holding and Symbol rows afterwards.
update_holdings(table, syms, acct, id, holdings_data) ==
    LET st == update_positions(
                  [holdings |-> table, symbols |-> syms, current_tickers |-> {}],
                  acct, id, holdings_data)
    IN  [ holdings |-> delete_closed(st.holdings, id, st.current_tickers),
          symbols |-> st.symbols ]

\* A Holding row as a sync wrote it.
HeldRow(id, ticker, q, current_price, average_price) ==
    HoldingSave([ account |-> id, ticker |-> ticker, quantity |-> q,
                  average_price |-> average_price, current_price |-> current_price,
                  total_value |-> 0, profit_loss |-> 0, profit_rate |-> 0 ])

\* The stores drawn for the sync of account 1: it holds X, Y, both or
\* nothing, and account 2 holds X or nothing.
HoldingStores ==
    { own \cup other :
        own \in SUBSET { HeldRow(1, "X", 1, 40, 50), HeldRow(1, "Y", 1, 40, 50) },
        other \in SUBSET { HeldRow(2, "X", 1, 40, 50) } }

InitHoldings ==
    /\ account \in { a \in Accounts :
                       /\ a.broker.code \in {"UPBIT", "KIS"}
                       /\ get_broker_client(a) # "ValueError"
                       /\ a.access_token = Null
                       /\ a.buy_enabled /\ a.sell_enabled
                       /\ a.investment_limit = Null }
    /\ holdings \in HoldingStores
    /\ symbols = { [ticker |-> h.ticker, currency |-> "KRW"] : h \in holdings }
    /\ orders = [o \in {1} |-> NewOrder("BUY", "MARKET", 2, Null)]
    /\ run = IdleRun
    /\ now = 1
    /\ checks = 0
    /\ lastOp = NoOp
    /\ daily = {}
    /\ triggers = [o \in {1} |-> 0]

\* update_holdings(account, holdings_data) on the snapshot of account 1.
UpdateHoldings(holdings_data) ==
    /\ run.pc = "idle"
    /\ LET res == update_holdings(holdings, symbols, account, 1, holdings_data)
       IN  /\ holdings' = res.holdings
           /\ symbols' = res.symbols
    /\ run' = [run EXCEPT !.pc = "returned"]
    /\ lastOp' = [ op |-> "update_holdings", account |-> 1,
                   holdings_data |-> holdings_data, before |-> holdings ]
    /\ UNCHANGED <<account, orders, now, checks, daily, triggers>>

NextHoldings == \E holdings_data \in Snapshots : UpdateHoldings(holdings_data)

SpecHoldings == InitHoldings /\ [][NextHoldings]_vars

\* ---- models.py Holding.save on any Holding object ---------------------------
\* A Holding object as a caller (the admin form, update_or_create) hands it
\* to save: every field is the caller's.
HoldingObjects ==
    [ account : {1}, ticker : {"X", "Y"},
      quantity : {0, 2}, average_price : {0, 50}, current_price : {0, 60},
      total_value : {0, 120, 500}, profit_loss : {0, 20}, profit_rate : {0, 400000} ]

\* obj.save(): the row of the object's key is written with what Holding.save
\* leaves in the object.
Holding_save(table, obj) ==
    { h \in table : h.account # obj.account \/ h.ticker # obj.ticker }
        \cup { HoldingSave(obj) }

InitHoldingSave ==
    /\ account \in { a \in Accounts :
                       /\ a.broker.code = "UPBIT"
                       /\ get_broker_client(a) # "ValueError"
                       /\ a.access_token = Null
                       /\ a.buy_enabled /\ a.sell_enabled
                       /\ a.investment_limit = Null }
    /\ holdings = {}
    /\ symbols = { [ticker |-> t, currency |-> "USDT"] : t \in {"X", "Y"} }
    /\ orders = [o \in {1} |-> NewOrder("BUY", "MARKET", 2, Null)]
    /\ run = IdleRun
    /\ now = 1
    /\ checks = 0
    /\ lastOp = NoOp
    /\ daily = {}
    /\ triggers = [o \in {1} |-> 0]

SaveHolding(obj) ==
    /\ holdings' = Holding_save(holdings, obj)
    /\ lastOp' = [ op |-> "Holding.save", obj |-> obj ]
    /\ UNCHANGED <<account, orders, run, now, checks, daily, triggers, symbols>>

NextHoldingSave == \E obj \in HoldingObjects : SaveHolding(obj)

SpecHoldingSave == InitHoldingSave /\ [][NextHoldingSave]_vars

\* ---- clients.py get_broker_client on any account ----------------------------
\* Broker rows of any category and code (a code in lower case, an unknown
\* code and an empty code included), with any credentials.
RegistryBrokers ==
    [ code : {"UPBIT", "BINGX", "KIS", "NH", "upbit", ""},
      is_crypto_exchange : BOOLEAN, upbit_in_name : {FALSE} ]

RegistryCredentials == [ has_api_key_secret : BOOLEAN, has_account_number : BOOLEAN ]

RegistryAccounts ==
    { Account(b, c, p, [access_token |-> Null, token_expires_at |-> Null]) :
        b \in RegistryBrokers, c \in RegistryCredentials, p \in Policies }

InitRegistry ==
    /\ account \in RegistryAccounts
    /\ orders = [o \in {1} |-> NewOrder("BUY", "MARKET", 2, Null)]
    /\ run = IdleRun
    /\ now = 1
    /\ checks = 0
    /\ lastOp = NoOp
    /\ daily = {}
    /\ triggers = [o \in {1} |-> 0]
    /\ holdings = {}
    /\ symbols = {}

\* get_broker_client(account): the adapter class it returns, or the
\* ValueError it raises.
GetBrokerClient ==
    /\ run.pc = "idle"
    /\ run' = [run EXCEPT !.pc = "returned"]
    /\ lastOp' = [ op |-> "get_broker_client", client |-> get_broker_client(account) ]
    /\ UNCHANGED <<account, orders, now, checks, daily, triggers, holdings, symbols>>

NextRegistry == GetBrokerClient

SpecRegistry == InitRegistry /\ [][NextRegistry]_vars

\* ---- clients.py KisClient._get_access_token over time -----------------------
\* The tokens the venue may issue (Null: the issue fails).
IssuedTokens == {Null, Some("T1"), Some("T2")}

KisAccounts ==
    { a \in Accounts :
        /\ a.broker.code = "KIS"
        /\ a.has_api_key_secret /\ a.has_account_number
        /\ a.buy_enabled /\ a.sell_enabled
        /\ a.investment_limit = Null }

InitToken ==
    /\ account \in KisAccounts
    /\ orders = [o \in {1} |-> NewOrder("BUY", "MARKET", 2, Null)]
    /\ run = IdleRun
    /\ now = 1
    /\ checks = 0
    /\ lastOp = NoOp
    /\ daily = {}
    /\ triggers = [o \in {1} |-> 0]
    /\ holdings = {}
    /\ symbols = {}

\* One request of a KIS adapter built on the Account row: it starts with
\* _get_access_token, the venue answering a token request with tk.
KisRequest(tk) ==
    /\ LET vr == [ token |-> tk, place |-> PlaceFailure,
                   status |-> StatusData("error", "wait", NoFill, Null) ]
           requested(s) ==
               /\ account' = s.acct
               /\ lastOp' = [ op |-> "_get_access_token", calls |-> s.calls,
                              token |-> s.token, before |-> account, at |-> now,
                              issued |-> tk ]
       IN  requested(get_access_token(EnterOrder(1), vr, now))
    /\ UNCHANGED <<orders, run, now, checks, daily, triggers, holdings, symbols>>

\* An hour passes.
Hour ==
    /\ now < MaxClock
    /\ now' = now + 1
    /\ lastOp' = NoOp
    /\ UNCHANGED <<account, orders, run, checks, daily, triggers, holdings, symbols>>

NextToken ==
    \/ \E tk \in IssuedTokens : KisRequest(tk)
    \/ Hour

SpecToken == InitToken /\ [][NextToken]_vars

\* ---- clients.py KisClient._get_access_token in two concurrent requests ------
\* The scheduler runs its jobs on a pool of threads: two requests for one
\* account, each through its own adapter and Account object.
Requests == {1, 2}

InitTokenRace ==
    /\ account \in KisAccounts
    /\ now \in {1, TokenLifetime}
    /\ run = [p \in Requests |-> [pc |-> "idle", acct |-> account, token |-> Null]]
    /\ orders = [o \in {1} |-> NewOrder("BUY", "MARKET", 2, Null)]
    /\ checks = 0
    /\ lastOp = [op |-> "_get_access_token", calls |-> <<>>]
    /\ daily = {}
    /\ triggers = [o \in {1} |-> 0]
    /\ holdings = {}
    /\ symbols = {}

\* The Account object is read from the store and the adapter is built on it.
Construct(p) ==
    /\ run[p].pc = "idle"
    /\ run' = [run EXCEPT ![p].pc = "built", ![p].acct = account]
    /\ UNCHANGED <<account, orders, now, checks, lastOp, daily, triggers, holdings, symbols>>

\* _get_access_token up to the request: the cached token of the adapter's
\* Account object is returned, or the token request is sent.
TestCached(p) ==
    /\ run[p].pc = "built"
    /\ IF token_unexpired(run[p].acct, now)
       THEN /\ run' = [run EXCEPT ![p].pc = "done",
                                  ![p].token = run[p].acct.access_token]
            /\ UNCHANGED lastOp
       ELSE /\ run' = [run EXCEPT ![p].pc = "posting"]
            /\ lastOp' = [lastOp EXCEPT !.calls = Append(@, <<"http_token", "">>)]
    /\ UNCHANGED <<account, orders, now, checks, daily, triggers, holdings, symbols>>

\* The venue answers the token request with tk: an issued token is set on the
\* Account object and saved with update_fields, a failed issue returns None.
Answer(p, tk) ==
    /\ run[p].pc = "posting"
    /\ IF tk # Null
       THEN /\ run' = [run EXCEPT ![p].pc = "done", ![p].token = tk,
                                  ![p].acct.access_token = tk,
                                  ![p].acct.token_expires_at = Some(now + TokenLifetime)]
            /\ account' = [account EXCEPT !.access_token = tk,
                                          !.token_expires_at = Some(now + TokenLifetime)]
            /\ lastOp' = [lastOp EXCEPT !.calls = Append(@, <<"save_token", "">>)]
       ELSE /\ run' = [run EXCEPT ![p].pc = "done"]
            /\ UNCHANGED <<account, lastOp>>
    /\ UNCHANGED <<orders, now, checks, daily, triggers, holdings, symbols>>

NextTokenRace ==
    \/ \E p \in Requests : Construct(p)
    \/ \E p \in Requests : TestCached(p)
    \/ \E p \in Requests, tk \in IssuedTokens : Answer(p, tk)

SpecTokenRace == InitTokenRace /\ [][NextTokenRace]_vars

\* ---- tasks.py update_account_info, update_accounts_info; the adapters' -----
\* ---- get_account_info; scheduler.py update_accounts_info_job ---------------
\* The balance columns of an Account row, with values of an earlier sync.
StaleBalances ==
    [ cash_balance_krw |-> 7, stock_value_krw |-> 8, total_assets_krw |-> 15,
      cash_balance_usd |-> 3, stock_value_usd |-> 4, total_assets_usd |-> 7,
      profit_rate |-> 5 ]

\* The Account rows of the store: any broker and credentials the registry
\* tells apart, no trading restriction.
AccountRows ==
    { a @@ StaleBalances :
        a \in { x \in Accounts : /\ x.buy_enabled /\ x.sell_enabled
                                 /\ x.investment_limit = Null } }

\* An asset of a venue's balance answer: price 0 stands for a price the
\* venue does not give; overseas applies to the securities venue only.
Asset(name, amount, price, avg, overseas) ==
    [ name |-> name, amount |-> amount, price |-> price, avg |-> avg,
      overseas |-> overseas, xch_rate |-> 2 ]

\* What the venue answers to the requests of get_account_info: the token
\* request, the balance request (ok FALSE: an error answer or a failed
\* request), the cash amount and the assets.
BalanceResps ==
    { [token |-> Some("T1"), ok |-> FALSE, cash |-> 0, assets |-> <<>>],
      [token |-> Null,       ok |-> TRUE,  cash |-> 100, assets |-> <<>>],
      [token |-> Some("T1"), ok |-> TRUE,  cash |-> 100, assets |-> <<>>],
      [token |-> Some("T1"), ok |-> TRUE,  cash |-> 0,
       assets |-> <<Asset("X", 2, 60, 50, FALSE)>>],
      [token |-> Some("T1"), ok |-> TRUE,  cash |-> 100,
       assets |-> <<Asset("Y", 3, 0, 0, FALSE)>>],
      [token |-> Some("T1"), ok |-> TRUE,  cash |-> 100,
       assets |-> <<Asset("Y", 3, 60, 0, TRUE)>>] }

FailedSnapshot == [success |-> FALSE]

\* f"KRW-{currency}" and f"{asset}-USDT" on the asset names of the model.
UpbitTicker(name) == IF name = "X" THEN "KRW-X" ELSE "KRW-Y"

BingXTicker(name) == IF name = "X" THEN "X-USDT" ELSE "Y-USDT"

\* The sum of f over the elements of a sequence.
RECURSIVE SumOver(_, _)
SumOver(f(_), q) == IF q = <<>> THEN 0 ELSE f(Head(q)) + SumOver(f, Tail(q))

\* The subsequence of q of the elements that satisfy keep.
RECURSIVE Filter(_, _)
Filter(keep(_), q) ==
    IF q = <<>> THEN <<>>
    ELSE IF keep(Head(q)) THEN <<Head(q)>> \o Filter(keep, Tail(q))
    ELSE Filter(keep, Tail(q))

\* The image of q under f.
Map(f(_), q) == [i \in DOMAIN q |-> f(q[i])]

\* UpbitClient.get_account_info: cash is the KRW balance; an asset with a
\* positive amount becomes a holding only when its price is known.
UpbitClient_get_account_info(resp) ==
    IF ~resp.ok THEN FailedSnapshot
    ELSE LET priced(a) == a.amount > 0 /\ a.price > 0
             value(a) == a.amount * a.price
             holding(a) ==
                 [ ticker |-> UpbitTicker(a.name), quantity |-> a.amount,
                   current_price |-> a.price, total_value |-> value(a),
                   average_price |-> 0, currency |-> "KRW" ]
             held == Filter(priced, resp.assets)
             cash_balance == resp.cash
             stock_value == SumOver(value, held)
         IN  [ success |-> TRUE,
               cash_balance |-> cash_balance, stock_value |-> stock_value,
               total_assets |-> cash_balance + stock_value,
               cash_balance_krw |-> cash_balance, stock_value_krw |-> stock_value,
               total_assets_krw |-> cash_balance + stock_value,
               cash_balance_usd |-> 0, stock_value_usd |-> 0, total_assets_usd |-> 0,
               holdings |-> Map(holding, held) ]

\* BingXClient.get_account_info: cash is the USDT balance; every other asset
\* becomes a holding without price or value.
BingXClient_get_account_info(resp) ==
    IF ~resp.ok THEN FailedSnapshot
    ELSE LET positive(a) == a.amount > 0
             holding(a) ==
                 [ ticker |-> BingXTicker(a.name), quantity |-> a.amount,
                   current_price |-> 0, average_price |-> 0, total_value |-> 0,
                   currency |-> "USDT" ]
             cash_balance == resp.cash
             stock_value == 0
         IN  [ success |-> TRUE,
               cash_balance |-> cash_balance, stock_value |-> stock_value,
               total_assets |-> cash_balance + stock_value,
               cash_balance_krw |-> 0, stock_value_krw |-> 0, total_assets_krw |-> 0,
               cash_balance_usd |-> cash_balance, stock_value_usd |-> stock_value,
               total_assets_usd |-> cash_balance + stock_value,
               holdings |-> Map(holding, Filter(positive, resp.assets)) ]

\* KisClient.get_account_info after the token: domestic stocks in KRW,
\* overseas stocks in USD with their value converted for the KRW totals.
KisClient_snapshot(resp) ==
    IF ~resp.ok THEN FailedSnapshot
    ELSE LET domestic(a) == ~a.overseas /\ a.amount > 0
             foreign(a) == a.overseas /\ a.amount > 0
             prpr(a) == IF a.overseas /\ a.price = 0 /\ a.avg > 0 THEN a.avg ELSE a.price
             value(a) == a.amount * prpr(a)
             value_krw(a) == value(a) * a.xch_rate
             holding(a) ==
                 [ ticker |-> a.name, quantity |-> a.amount,
                   current_price |-> prpr(a),
                   average_price |-> IF a.avg > 0 THEN a.avg ELSE prpr(a),
                   total_value |-> value(a),
                   currency |-> IF a.overseas THEN "USD" ELSE "KRW" ]
             home == Filter(domestic, resp.assets)
             abroad == Filter(foreign, resp.assets)
             cash_balance == resp.cash
             stock_value == SumOver(value, home) + SumOver(value_krw, abroad)
             stock_value_usd == SumOver(value, abroad)
         IN  [ success |-> TRUE,
               cash_balance |-> cash_balance, stock_value |-> stock_value,
               total_assets |-> cash_balance + stock_value,
               cash_balance_krw |-> cash_balance, stock_value_krw |-> stock_value,
               total_assets_krw |-> cash_balance + stock_value,
               cash_balance_usd |-> 0, stock_value_usd |-> stock_value_usd,
               total_assets_usd |-> stock_value_usd,
               holdings |-> Map(holding, home) \o Map(holding, abroad) ]

\* client.get_account_info(): the Account object afterwards (the OAuth
\* adapter may have cached a token on it) and the snapshot.
get_account_info(client, acct, resp, t) ==
    IF client = "UpbitClient"
    THEN [acct |-> acct, result |-> UpbitClient_get_account_info(resp)]
    ELSE IF client = "BingXClient"
    THEN [acct |-> acct, result |-> BingXClient_get_account_info(resp)]
    ELSE LET tokened(s) ==
                 [ acct |-> s.acct,
                   result |-> IF s.token = Null THEN FailedSnapshot
                              ELSE KisClient_snapshot(resp) ]
         IN  tokened(get_access_token(Enter(NoRow, acct),
                                      [token |-> resp.token], t))

\* The failure branch of update_account_info as it would be if the balances
\* were read off the answer before the check of success.
snapshot_failed_stored(r, table, syms) ==
    [ raised |-> TRUE, skipped |-> FALSE, result |-> r.result,
      acct |-> [r.acct EXCEPT !.cash_balance_krw = 0, !.stock_value_krw = 0,
                              !.total_assets_krw = 0, !.cash_balance_usd = 0,
                              !.stock_value_usd = 0, !.total_assets_usd = 0],
      holdings |-> table, symbols |-> syms ]

\* The failure branch of update_account_info: raise Exception(error_msg),
\* logged and raised again by the handler.
snapshot_failed(r, table, syms) ==
    [ raised |-> TRUE, skipped |-> FALSE, result |-> r.result,
      acct |-> r.acct, holdings |-> table, symbols |-> syms ]

\* update_account_info(account) for the account with primary key id: raised
\* tells that it raised, skipped that the registry raised the configuration
\* error.
update_account_info(acct, table, syms, id, resp, t) ==
    LET client == get_broker_client(acct)
        snapshot(r) ==
            IF r.result.success
            THEN LET result == r.result
                     account_ ==
                         [ r.acct EXCEPT
                             !.cash_balance_krw = result.cash_balance_krw,
                             !.stock_value_krw = result.stock_value_krw,
                             !.total_assets_krw = result.total_assets_krw,
                             !.cash_balance_usd = result.cash_balance_usd,
                             !.stock_value_usd = result.stock_value_usd,
                             !.total_assets_usd = result.total_assets_usd,
                             !.profit_rate =
                                 IF result.total_assets_krw > 0 THEN 0 ELSE @ ]
                     synced(h) ==
                         [ raised |-> FALSE, skipped |-> FALSE, result |-> result,
                           acct |-> account_, holdings |-> h.holdings,
                           symbols |-> h.symbols ]
                 IN  synced(update_holdings(table, syms, account_, id, result.holdings))
            ELSE snapshot_failed(r, table, syms)
    IN  IF client = "ValueError"
        THEN [ raised |-> FALSE, skipped |-> TRUE, result |-> FailedSnapshot,
               acct |-> acct, holdings |-> table, symbols |-> syms ]
        ELSE snapshot(get_account_info(client, acct, resp, t))

\* The loop of update_accounts_info over the ids still to visit, resps giving
\* the venue's answers for each account.
RECURSIVE update_accounts_loop(_, _, _, _)
update_accounts_loop(st, ids, resps, t) ==
    IF ids = <<>> THEN st
    ELSE LET id == Head(ids)
             visited(r) ==
                 [ store |-> [st.store EXCEPT ![id] = r.acct],
                   holdings |-> r.holdings, symbols |-> r.symbols,
                   updated_count |-> IF r.raised THEN st.updated_count
                                     ELSE st.updated_count + 1,
                   failed_count |-> IF r.raised THEN st.failed_count + 1
                                    ELSE st.failed_count,
                   outcomes |-> [st.outcomes EXCEPT ![id] =
                                    [ attempted |-> TRUE, raised |-> r.raised,
                                      skipped |-> r.skipped, result |-> r.result ]] ]
         IN  update_accounts_loop(
                 visited(update_account_info(st.store[id], st.holdings, st.symbols,
                                             id, resps[id], t)),
                 Tail(ids), resps, t)

NotAttempted ==
    [attempted |-> FALSE, raised |-> FALSE, skipped |-> FALSE, result |-> FailedSnapshot]

\* update_accounts_info(): Account.objects.all() comes newest first
\* (Meta.ordering = ['-created_at']).
update_accounts_info(store, table, syms, resps, t) ==
    update_accounts_loop(
        [ store |-> store, holdings |-> table, symbols |-> syms,
          updated_count |-> 0, failed_count |-> 0,
          outcomes |-> [id \in DOMAIN store |-> NotAttempted] ],
        Descending(DOMAIN store), resps, t)

\* A scheduler job without its except clause: the error leaves the job.
job_raising == [propagated |-> TRUE, notified |-> <<>>]

\* The except clause of a scheduler job: the error is logged and one failure
\* notification is sent; nothing is raised again.
job_failed == [propagated |-> FALSE, notified |-> <<"failure">>]

\* A job's try block came to its end after these notifications.
job_done(notices) == [propagated |-> FALSE, notified |-> notices]

\* update_accounts_info_job around the outcome of its task: whether an
\* exception left the job, and the notifications it sends.
update_accounts_info_job(total_count, task) ==
    IF task.raised THEN job_failed
    ELSE job_done(IF task.count < total_count THEN <<"completed">> ELSE <<>>)

StoreIds == 1..MaxAccounts

\* Every account holds X from an earlier sync.
InitAccounts ==
    /\ account \in [StoreIds -> AccountRows]
    /\ holdings = { HeldRow(id, "X", 1, 40, 50) : id \in StoreIds }
    /\ symbols = { [ticker |-> "X", currency |-> "KRW"] }
    /\ orders = [o \in {1} |-> NewOrder("BUY", "MARKET", 2, Null)]
    /\ run = IdleRun
    /\ now = 1
    /\ checks = 0
    /\ lastOp = NoOp
    /\ daily = {}
    /\ triggers = [o \in {1} |-> 0]

\* update_account_info(account) on the account with primary key id.
UpdateAccountInfo(id, resp) ==
    /\ run.pc = "idle"
    /\ run' = [run EXCEPT !.pc = "returned"]
    /\ LET updated(r) ==
               /\ account' = [account EXCEPT ![id] = r.acct]
               /\ holdings' = r.holdings
               /\ symbols' = r.symbols
               /\ lastOp' = [ op |-> "update_account_info", account |-> id,
                              raised |-> r.raised, skipped |-> r.skipped,
                              result |-> r.result, before |-> account[id],
                              held |-> holdings ]
       IN  updated(update_account_info(account[id], holdings, symbols, id, resp, now))
    /\ UNCHANGED <<orders, now, checks, daily, triggers>>

\* update_accounts_info_job(): the count, the task and the notification.
UpdateAccountsInfoJob(resps) ==
    /\ run.pc = "idle"
    /\ run' = [run EXCEPT !.pc = "returned"]
    /\ LET total_count == Cardinality(DOMAIN account)
           finished(st) ==
               /\ account' = st.store
               /\ holdings' = st.holdings
               /\ symbols' = st.symbols
               /\ lastOp' = [ op |-> "update_accounts_info_job",
                              total_count |-> total_count,
                              updated_count |-> st.updated_count,
                              outcomes |-> st.outcomes,
                              notified |-> update_accounts_info_job(
                                  total_count,
                                  [raised |-> FALSE, count |-> st.updated_count]).notified ]
       IN  finished(update_accounts_info(account, holdings, symbols, resps, now))
    /\ UNCHANGED <<orders, now, checks, daily, triggers>>

NextAccounts ==
    \/ \E id \in StoreIds, resp \in BalanceResps : UpdateAccountInfo(id, resp)
    \/ \E resps \in [StoreIds -> BalanceResps] : UpdateAccountsInfoJob(resps)

SpecAccounts == InitAccounts /\ [][NextAccounts]_vars

\* ---- scheduler.py: the four jobs; notifications.py notify_scheduler --------
\* What a job's task does: it raises, or it returns a count.
TaskOutcomes ==
    {[raised |-> TRUE, count |-> 0]}
        \cup {[raised |-> FALSE, count |-> n] : n \in 0..MaxCount}

\* process_orders_job around the count of PENDING orders before and the
\* outcome of process_orders().
process_orders_job(before_count, task) ==
    IF task.raised THEN job_failed
    ELSE job_done(IF task.count > 0 THEN <<"completed">>
                  ELSE IF before_count > 0 THEN <<"warning">>
                  ELSE <<>>)

\* crawl_symbols_job around the outcome of crawl_all_symbols().
crawl_symbols_job(task) ==
    IF task.raised THEN job_failed ELSE job_done(<<"completed">>)

\* calculate_daily_profit_job around the outcome of
\* update_all_accounts_daily_profit(yesterday).
calculate_daily_profit_job(task) ==
    IF task.raised THEN job_failed ELSE job_done(<<"completed">>)

\* notify_scheduler(message): the messages that reach the chat. Without a bot
\* it warns and returns False; send_message returns False on every error.
notify_scheduler(telegram, posted, notices) ==
    IF telegram /\ posted THEN notices ELSE <<>>

\* The bot of the scheduler is configured in the settings, or it is not.
InitJobs ==
    /\ run = [pc |-> "scheduled", server_scheduler_telegram |-> FALSE]
       \/ run = [pc |-> "scheduled", server_scheduler_telegram |-> TRUE]
    /\ account \in { a \in Accounts : /\ a.buy_enabled /\ a.sell_enabled
                                     /\ a.investment_limit = Null
                                     /\ a.has_api_key_secret
                                     /\ a.has_account_number }
    /\ orders = [o \in {1} |-> NewOrder("BUY", "MARKET", 2, Null)]
    /\ holdings = {}
    /\ symbols = {}
    /\ now = 1
    /\ checks = 0
    /\ lastOp = NoOp
    /\ daily = {}
    /\ triggers = [o \in {1} |-> 0]

\* One run of a job by the scheduler: job names it, counted is the count the
\* job reads before its task, task the outcome of the task, posted whether
\* Telegram accepts a message.
RunJob(job, counted, task, posted, res) ==
    /\ lastOp' = [ op |-> job, counted |-> counted, task |-> task,
                   propagated |-> res.propagated, notified |-> res.notified,
                   delivered |-> notify_scheduler(run.server_scheduler_telegram,
                                                  posted, res.notified) ]
    /\ UNCHANGED <<account, orders, run, now, checks, daily, triggers,
                   holdings, symbols>>

ProcessOrdersJob(before_count, task, posted) ==
    /\ run.pc = "scheduled"
    /\ RunJob("process_orders_job", before_count, task, posted,
              process_orders_job(before_count, task))

CrawlSymbolsJob(task, posted) ==
    /\ run.pc = "scheduled"
    /\ RunJob("crawl_symbols_job", 0, task, posted, crawl_symbols_job(task))

UpdateAccountsInfoJobRun(total_count, task, posted) ==
    /\ run.pc = "scheduled"
    /\ task.count <= total_count
    /\ RunJob("update_accounts_info_job", total_count, task, posted,
              update_accounts_info_job(total_count, task))

CalculateDailyProfitJob(task, posted) ==
    /\ run.pc = "scheduled"
    /\ RunJob("calculate_daily_profit_job", 0, task, posted,
              calculate_daily_profit_job(task))

NextJobs ==
    \/ \E n \in 0..MaxCount, task \in TaskOutcomes, posted \in BOOLEAN :
           ProcessOrdersJob(n, task, posted)
    \/ \E task \in TaskOutcomes, posted \in BOOLEAN : CrawlSymbolsJob(task, posted)
    \/ \E n \in 0..MaxCount, task \in TaskOutcomes, posted \in BOOLEAN :
           UpdateAccountsInfoJobRun(n, task, posted)
    \/ \E task \in TaskOutcomes, posted \in BOOLEAN :
           CalculateDailyProfitJob(task, posted)

SpecJobs == InitJobs /\ [][NextJobs]_vars

\* ---- tasks.py process_orders in two overlapping runs ------------------------
\* Two process_orders invocations on two scheduler threads (a run that lasts
\* longer than the interval, or two scheduler processes), on one order.
Runs == {1, 2}

\* The queryset of a run as it would be with a claim step: the PENDING orders
\* that no other run has picked.
pending_unclaimed(p) ==
    Descending({ o \in DOMAIN orders :
                   /\ orders[o].status = "PENDING"
                   /\ \A q \in Runs \ {p} : o \notin run[q].picked })

\* Order.objects.filter(status=PENDING) as run p evaluates it: no lock, no
\* claim; what other runs hold does not matter.
pending_for(p) == pending_orders

IdleOverlap == [ pc |-> "idle", batch |-> <<>>, seen |-> {}, picked |-> {},
                 mem |-> NoRow, res |-> NoRow ]

InitOverlap ==
    /\ account \in Accounts
    /\ orders \in [{1} -> NewOrders]
    /\ run = [p \in Runs |-> IdleOverlap]
    /\ now = 1
    /\ checks = 0
    /\ lastOp = [op |-> "process_orders", calls |-> <<>>]
    /\ daily = {}
    /\ triggers = [o \in {1} |-> 0]
    /\ holdings = {}
    /\ symbols = {}

\* The for loop of run p evaluates the queryset: the rows are loaded into
\* the run's own Order objects.
Query(p) ==
    /\ run[p].pc = "idle"
    /\ LET batch == pending_for(p)
       IN  run' = [run EXCEPT ![p].pc = "loop", ![p].batch = batch,
                              ![p].seen = { o \in DOMAIN orders :
                                              orders[o].status = "PENDING" },
                              ![p].picked = { batch[i] : i \in DOMAIN batch }]
    /\ UNCHANGED <<account, orders, now, checks, lastOp, daily, triggers,
                   holdings, symbols>>

\* Run p enters process_order on its next Order object and goes as far as the
\* adapter's requests to the venue: the venue has the order request before
\* any status of the order is saved.
Place(p, vr) ==
    /\ run[p].pc = "loop"
    /\ run[p].batch # <<>>
    /\ LET o == Head(run[p].batch)
           entered == [Enter(orders[o], account) EXCEPT !.id = o, !.table = daily]
           sent(s2) ==
               /\ run' = [run EXCEPT ![p].pc = "placed",
                                     ![p].mem = orders[o],
                                     ![p].res = [ order |-> o, row |-> s2.row,
                                                  table |-> s2.table,
                                                  triggered |-> s2.triggered,
                                                  acct |-> s2.acct ]]
               /\ lastOp' = IF \E i \in DOMAIN s2.calls : s2.calls[i][1] = "http_order"
                            THEN [lastOp EXCEPT !.calls = Append(@, <<"http_order", "">>)]
                            ELSE lastOp
           processed(s1) == sent(process_orders_iteration(s1, now))
       IN  processed(process_order(entered, vr, now))
    /\ UNCHANGED <<account, orders, now, checks, daily, triggers, holdings, symbols>>

\* The saves of run p's process_order reach the store.
Commit(p) ==
    /\ run[p].pc = "placed"
    /\ orders' = [orders EXCEPT ![run[p].res.order] = run[p].res.row]
    /\ account' = run[p].res.acct
    /\ daily' = run[p].res.table
    /\ triggers' = [triggers EXCEPT ![run[p].res.order] = @ + run[p].res.triggered]
    /\ run' = [run EXCEPT ![p].pc = IF Tail(run[p].batch) = <<>> THEN "done" ELSE "loop",
                          ![p].batch = Tail(@)]
    /\ lastOp' = [lastOp EXCEPT !.calls = Append(@, <<"save", run[p].res.row.status>>)]
    /\ UNCHANGED <<now, checks, holdings, symbols>>

NextOverlap ==
    \/ \E p \in Runs : Query(p)
    \/ \E p \in Runs, vr \in BatchResps : Place(p, vr)
    \/ \E p \in Runs : Commit(p)

SpecOverlap == InitOverlap /\ [][NextOverlap]_vars

\* ---- scheduler.py: the dispatch job cycle after cycle ------------------------
\* What the venue answers once the order is settled there: the status request
\* reports the order done with its fill, or cancelled.
SettledResps ==
    [ token : {Some("T1")}, place : BatchPlaceResps,
      status : { StatusData("dict", "done", [executed_volume |-> 1, avg_price |-> 1], Null),
                 StatusData("dict", "cancel", NoFill, Null) } ]

\* checks = 1: the venue has settled the order and says so from now on.  The
\* account may trade without restriction.
InitCycles ==
    /\ account \in { a \in Accounts : /\ a.buy_enabled /\ a.sell_enabled
                                     /\ a.investment_limit = Null }
    /\ orders \in [{1} -> NewOrders]
    /\ run = IdleRun
    /\ now = 1
    /\ checks = 0
    /\ lastOp = NoOp
    /\ daily = {}
    /\ triggers = [o \in {1} |-> 0]
    /\ holdings = {}
    /\ symbols = {}

\* One scheduled run of process_orders_job, from the queryset to the return:
\* process_order on the order when it is PENDING, nothing otherwise.  No
\* other job of start_scheduler reads or writes an order.
DispatchCycle(vr) ==
    /\ IF pending_orders = <<>>
       THEN /\ lastOp' = [NoOp EXCEPT !.op = "process_orders"]
            /\ UNCHANGED <<account, orders, daily, triggers>>
       ELSE LET o == Head(pending_orders)
                iterated(s2) ==
                    /\ orders' = [orders EXCEPT ![o] = s2.row]
                    /\ account' = s2.acct
                    /\ daily' = s2.table
                    /\ triggers' = [triggers EXCEPT ![o] = IF s2.triggered > 0 THEN 1 ELSE @]
                    /\ lastOp' = Op("process_order", o, s2)
                processed(s1) == iterated(process_orders_iteration(s1, now))
            IN  processed(process_order(EnterOrder(o), vr, now))
    /\ UNCHANGED <<run, now, checks, holdings, symbols>>

DispatchUnsettled ==
    /\ checks = 0
    /\ \E vr \in BatchResps : DispatchCycle(vr)

DispatchSettled ==
    /\ checks = 1
    /\ \E vr \in SettledResps : DispatchCycle(vr)

\* The venue settles the order: it is executed or cancelled there.
VenueSettles ==
    /\ checks = 0
    /\ checks' = 1
    /\ lastOp' = NoOp
    /\ UNCHANGED <<account, orders, run, now, daily, triggers, holdings, symbols>>

NextCycles ==
    \/ DispatchUnsettled
    \/ DispatchSettled
    \/ VenueSettles

\* The interval trigger runs the job again and again; the venue settles every
\* order at some time.
SpecCycles ==
    /\ InitCycles
    /\ [][NextCycles]_vars
    /\ WF_vars(DispatchSettled)
    /\ WF_vars(VenueSettles)

\* ---- clients.py KisClient._get_overseas_holdings: the fan-out ----------------
\* exchanges = ['NASD', 'NYSE', 'AMEX', 'TSEI', 'HASE']
Exchanges == <<"NASD", "NYSE", "AMEX", "TSEI", "HASE">>

ExchangeCodes == { Exchanges[i] : i \in DOMAIN Exchanges }

\* What one exchange's balance request ends in: an answer with rt_cd '0', a
\* timeout or another network error (requests.exceptions), an HTTP error, an
\* answer with another rt_cd.
ExchangeOutcomes == {"ok", "timeout", "http", "refused"}

\* The stock the account may own on each exchange.
Listed(exchange) ==
    CASE exchange = "NASD" -> "AAPL"
      [] exchange = "NYSE" -> "KO"
      [] exchange = "AMEX" -> "SPY"
      [] exchange = "TSEI" -> "SONY"
      [] exchange = "HASE" -> "VNM"

\* The loop of _get_overseas_holdings as it would be if an error on one
\* exchange ended the loop.
RECURSIVE overseas_aborting(_, _, _, _)
overseas_aborting(st, exchanges, owned, outcome) ==
    IF exchanges = <<>> THEN st
    ELSE LET exchange == Head(exchanges)
             visited == Append(st.visited, exchange)
         IN  IF outcome[exchange] # "ok"
             THEN [st EXCEPT !.visited = visited]
             ELSE overseas_aborting(
                      [ visited |-> visited,
                        assets |-> IF exchange \in owned
                                   THEN Append(st.assets, Asset(Listed(exchange), 3, 60, 50, TRUE))
                                   ELSE st.assets ],
                      Tail(exchanges), owned, outcome)

\* The loop of _get_overseas_holdings over the exchanges still to visit: an
\* exchange that answers reports the position the account owns there; every
\* other outcome is logged and the loop goes on.
RECURSIVE overseas_loop(_, _, _, _)
overseas_loop(st, exchanges, owned, outcome) ==
    IF exchanges = <<>> THEN st
    ELSE LET exchange == Head(exchanges)
         IN  overseas_loop(
                 [ visited |-> Append(st.visited, exchange),
                   assets |-> IF outcome[exchange] = "ok" /\ exchange \in owned
                              THEN Append(st.assets, Asset(Listed(exchange), 3, 60, 50, TRUE))
                              ELSE st.assets ],
                 Tail(exchanges), owned, outcome)

\* _get_overseas_holdings(access_token): the exchanges requested, in order,
\* and the positions collected.
get_overseas_holdings(owned, outcome) ==
    overseas_loop([visited |-> <<>>, assets |-> <<>>], Exchanges, owned, outcome)

\* The domestic stock of the securities account, and the coin of the
\* exchange account.
Domestic == Asset("005930", 2, 60, 50, FALSE)

\* Account 1 is a KIS account, account 2 an Upbit account, both with their
\* credentials; each owns positions at its venue, and a Holding row of an
\* earlier sync tracks every one of them.  run.owned: what account 1 owns
\* abroad, by exchange.
InitFanOut ==
    /\ account \in
         { [id \in {1, 2} |-> IF id = 1 THEN k ELSE u] :
             k \in { a \in AccountRows : /\ a.broker.code = "KIS"
                                         /\ a.has_api_key_secret
                                         /\ a.has_account_number
                                         /\ a.access_token = Null },
             u \in { a \in AccountRows : /\ a.broker.code = "UPBIT"
                                         /\ a.has_api_key_secret } }
    /\ \E owned \in SUBSET ExchangeCodes :
         /\ run = [pc |-> "idle", owned |-> owned]
         /\ holdings = { HeldRow(1, Listed(e), 3, 60, 50) : e \in owned }
                           \cup { HeldRow(1, "005930", 2, 60, 50),
                                  HeldRow(2, "KRW-X", 2, 60, 60) }
    /\ symbols = {}
    /\ orders = [o \in {1} |-> NewOrder("BUY", "MARKET", 2, Null)]
    /\ now = 1
    /\ checks = 0
    /\ lastOp = NoOp
    /\ daily = {}
    /\ triggers = [o \in {1} |-> 0]

\* update_account_info on the KIS account: the domestic balance request
\* succeeds, each exchange's request ends as outcome says.
SyncSecurities(outcome) ==
    /\ run.pc = "idle"
    /\ run' = [run EXCEPT !.pc = "returned"]
    /\ LET updated(fan, r) ==
               /\ account' = [account EXCEPT ![1] = r.acct]
               /\ holdings' = r.holdings
               /\ symbols' = r.symbols
               /\ lastOp' = [ op |-> "update_account_info", account |-> 1,
                              raised |-> r.raised, skipped |-> r.skipped,
                              result |-> r.result, visited |-> fan.visited,
                              outcome |-> outcome,
                              owned |-> {"005930"} \cup { Listed(e) : e \in run.owned },
                              held |-> holdings ]
           fanned(fan) ==
               updated(fan,
                       update_account_info(
                           account[1], holdings, symbols, 1,
                           [ token |-> Some("T1"), ok |-> TRUE, cash |-> 100,
                             assets |-> <<Domestic>> \o fan.assets ], now))
       IN  fanned(get_overseas_holdings(run.owned, outcome))
    /\ UNCHANGED <<orders, now, checks, daily, triggers>>

\* update_account_info on the Upbit account, which owns 2 X: the balance
\* request succeeds, and the lookup of the current price of KRW-X gives a
\* price or fails (price 0).
SyncExchange(price) ==
    /\ run.pc = "idle"
    /\ run' = [run EXCEPT !.pc = "returned"]
    /\ LET updated(r) ==
               /\ account' = [account EXCEPT ![2] = r.acct]
               /\ holdings' = r.holdings
               /\ symbols' = r.symbols
               /\ lastOp' = [ op |-> "update_account_info", account |-> 2,
                              raised |-> r.raised, skipped |-> r.skipped,
                              result |-> r.result, visited |-> <<>>,
                              outcome |-> [e \in ExchangeCodes |-> "ok"],
                              owned |-> {"KRW-X"},
                              held |-> holdings ]
       IN  updated(update_account_info(
                       account[2], holdings, symbols, 2,
                       [ token |-> Null, ok |-> TRUE, cash |-> 100,
                         assets |-> <<Asset("X", 2, price, 0, FALSE)>> ], now))
    /\ UNCHANGED <<orders, now, checks, daily, triggers>>

NextFanOut ==
    \/ \E outcome \in [ExchangeCodes -> ExchangeOutcomes] : SyncSecurities(outcome)
    \/ \E price \in {0, 60} : SyncExchange(price)

SpecFanOut == InitFanOut /\ [][NextFanOut]_vars

\* ---- serializers.py AccountSerializer, views.py AccountViewSet --------------
\* The brokers an account request may name, by id.
ApiBrokers == {"KIS", "UPBIT"}

is_crypto_exchange(broker_id) == broker_id = "UPBIT"

\* The fields of a request body that matter: "absent" is a key the body does
\* not have; an account number is None, blank or a number.
AccountAttrs ==
    [ broker_id : ApiBrokers \cup {"absent"},
      account_number : {"absent", "None", "", "12345678-01"} ]

NoAccount == [exists |-> FALSE, broker_id |-> "absent", account_number |-> "None"]

\* AccountSerializer.validate(attrs): TRUE when it returns attrs, FALSE when
\* it raises ValidationError.  It reads the request body only.
validate(instance, attrs) ==
    LET broker_id == attrs.broker_id
        account_number == IF attrs.account_number = "absent" THEN ""
                          ELSE attrs.account_number
    IN  ~(/\ broker_id # "absent"
          /\ ~is_crypto_exchange(broker_id)
          /\ account_number \in {"None", ""})

\* is_valid(): broker_id is a required field unless the update is partial.
is_valid(instance, attrs, partial) ==
    /\ partial \/ attrs.broker_id # "absent"
    /\ validate(instance, attrs)

\* ModelSerializer.create / update: the keys of the body are set on the row.
saved(instance, attrs) ==
    [ exists |-> TRUE,
      broker_id |-> IF attrs.broker_id = "absent" THEN instance.broker_id
                    ELSE attrs.broker_id,
      account_number |-> IF attrs.account_number = "absent"
                         THEN instance.account_number
                         ELSE attrs.account_number ]

InitAccountApi ==
    /\ account = NoAccount
    /\ orders = [o \in {1} |-> NewOrder("BUY", "MARKET", 2, Null)]
    /\ run = IdleRun
    /\ now = 1
    /\ checks = 0
    /\ lastOp = NoOp
    /\ daily = {}
    /\ triggers = [o \in {1} |-> 0]
    /\ holdings = {}
    /\ symbols = {}

\* A request of the account API on the row: the row is written when the
\* serializer is valid, and the request is answered 400 otherwise.
Request(name, instance, attrs, partial) ==
    /\ account' = IF is_valid(instance, attrs, partial) THEN saved(instance, attrs)
                  ELSE account
    /\ lastOp' = [ op |-> name, attrs |-> attrs, before |-> account,
                   accepted |-> is_valid(instance, attrs, partial) ]
    /\ UNCHANGED <<orders, run, now, checks, daily, triggers, holdings, symbols>>

\* POST /accounts/
CreateAccount(attrs) ==
    /\ ~account.exists
    /\ Request("create", NoAccount, attrs, FALSE)

\* PUT /accounts/{id}/
UpdateAccount(attrs) ==
    /\ account.exists
    /\ Request("update", account, attrs, FALSE)

\* PATCH /accounts/{id}/
PartialUpdateAccount(attrs) ==
    /\ account.exists
    /\ Request("partial_update", account, attrs, TRUE)

\* DELETE /accounts/{id}/
DestroyAccount ==
    /\ account.exists
    /\ account' = NoAccount
    /\ lastOp' = [ op |-> "destroy", attrs |-> [broker_id |-> "absent",
                                                account_number |-> "absent"],
                   before |-> account, accepted |-> TRUE ]
    /\ UNCHANGED <<orders, run, now, checks, daily, triggers, holdings, symbols>>

NextAccountApi ==
    \/ \E attrs \in AccountAttrs : CreateAccount(attrs)
    \/ \E attrs \in AccountAttrs : UpdateAccount(attrs)
    \/ \E attrs \in AccountAttrs : PartialUpdateAccount(attrs)
    \/ DestroyAccount

SpecAccountApi == InitAccountApi /\ [][NextAccountApi]_vars

\* ---- the venue of an account: Broker.code and Broker.name -----------------
\* A Broker row carries a code and a display name, two independent columns
\* (models.py Broker) that the admin site writes.  The registry dispatches on
\* the code, check_order_status tests the name.
BrokerCodes == {"UPBIT", "BINGX", "KIS"}
BrokerNames == {"Upbit", "Dunamu", "BingX", "Korea Investment"}

\* str.lower() on the broker names of the model.
lower(name) ==
    CASE name = "Upbit" -> "upbit"
      [] name = "Dunamu" -> "dunamu"
      [] name = "BingX" -> "bingx"
      [] name = "Korea Investment" -> "korea investment"
      [] OTHER -> name

\* 'upbit' in s, on the lowered names of the model.
contains_upbit(s) == s \in {"upbit"}

NamedBrokers ==
    { [ code |-> c, name |-> n, is_crypto_exchange |-> x,
        upbit_in_name |-> contains_upbit(lower(n)) ] :
        c \in BrokerCodes, n \in BrokerNames, x \in BOOLEAN }

\* Accounts with every credential, whatever adapter serves them.
NamedAccounts ==
    { [ broker |-> b, has_api_key_secret |-> TRUE, has_account_number |-> TRUE,
        buy_enabled |-> TRUE, sell_enabled |-> TRUE, investment_limit |-> Null,
        access_token |-> Null, token_expires_at |-> Null ] : b \in NamedBrokers }

InitVenues ==
    /\ account \in NamedAccounts
    /\ orders \in [{1} -> NewOrders]
    /\ run = IdleRun
    /\ now = 1
    /\ checks = 0
    /\ lastOp = NoOp
    /\ daily = {}
    /\ triggers = [o \in DOMAIN orders |-> 0]
    /\ holdings = {}
    /\ symbols = {}

\* process_orders on the store of one order: the PENDING order is dispatched
\* and reconciled with the adapter the registry returns.
DispatchVenue ==
    /\ run.n < MaxRuns
    /\ pending_orders # <<>>
    /\ \E vr \in VenueResps :
         LET o == Head(pending_orders)
             dispatched(s1, s2) ==
                 /\ orders' = [orders EXCEPT ![o] = s2.row]
                 /\ account' = s2.acct
                 /\ daily' = s2.table
                 /\ triggers' = [triggers EXCEPT ![o] = @ + s2.triggered]
                 /\ run' = [run EXCEPT !.pc = IF s2.raised THEN "raised" ELSE "returned",
                                       !.processed_count = processed_count_after(0, s1),
                                       !.n = @ + 1]
                 /\ lastOp' = Op("process_order", o, s2)
             processed(s1) == dispatched(s1, process_orders_iteration(s1, now))
         IN  processed(process_order(EnterOrder(o), vr, now))
    /\ now' = now + 1
    /\ UNCHANGED <<checks, holdings, symbols>>

NextVenues == DispatchVenue

SpecVenues == InitVenues /\ [][NextVenues]_vars

\* ---- the order API beside a dispatch run ----------------------------------
\* What a PATCH /orders/{id}/ may carry: OrderUpdateSerializer has the fields
\* quantity and price, and update() passes partial=True, so either may be
\* absent (Null); a price that is present may be null.
UpdateAttrs ==
    [ quantity : {Null, Some(3)}, price : {Null, Some(Null), Some(Some(2))} ]

IdleRequest == [ pc |-> "idle", action |-> "none", mem |-> NoRow, attrs |-> Null ]

\* run.n counts the dispatch runs, run.requests the API requests, run.accepted
\* the order requests the venue accepted; run.api is the request in progress.
InitOrderApi ==
    /\ account \in { a \in Accounts : /\ a.buy_enabled /\ a.sell_enabled
                                      /\ a.investment_limit = Null
                                      /\ a.access_token = Null }
    /\ orders \in [{1} -> NewOrders]
    /\ run = [ n |-> 0, requests |-> 0, accepted |-> 0, api |-> IdleRequest ]
    /\ now = 1
    /\ checks = 0
    /\ lastOp = NoOp
    /\ daily = {}
    /\ triggers = [o \in {1} |-> 0]
    /\ holdings = {}
    /\ symbols = {}

\* What an API step leaves in lastOp: the response, and the row that was
\* persisted before the step (NoRow when there was none).
ApiOp(name, response) ==
    [ op |-> name, order |-> 1, response |-> response,
      before |-> IF 1 \in DOMAIN orders THEN orders[1] ELSE NoRow ]

\* OrderViewSet.update / destroy up to the check of the status: get_object()
\* loads the order, and a request on an order that is not PENDING is answered
\* 400.  The owner is the requesting user.
LoadOrder(action) ==
    /\ run.api.pc = "idle"
    /\ run.requests < MaxRuns
    /\ IF 1 \notin DOMAIN orders
       THEN /\ run' = [run EXCEPT !.requests = @ + 1]
            /\ lastOp' = ApiOp(action, 404)
       ELSE IF orders[1].status # "PENDING"
       THEN /\ run' = [run EXCEPT !.requests = @ + 1]
            /\ lastOp' = ApiOp(action, 400)
       ELSE /\ \E attrs \in UpdateAttrs :
                 run' = [run EXCEPT !.requests = @ + 1,
                                    !.api = [ pc |-> "loaded", action |-> action,
                                              mem |-> orders[1],
                                              attrs |-> IF action = "update"
                                                        THEN attrs ELSE Null ]]
            /\ lastOp' = ApiOp("get_object", 0)
    /\ UNCHANGED <<account, orders, now, checks, daily, triggers, holdings, symbols>>

\* ModelSerializer.update: the validated attributes are set on the instance,
\* then instance.save() writes every column of the instance.
serializer_update(instance, attrs) ==
    [instance EXCEPT
        !.quantity = IF attrs.quantity # Null THEN Val(attrs.quantity) ELSE @,
        !.price = IF attrs.price # Null THEN Val(attrs.price) ELSE @]

\* OrderViewSet.update from the serializer on: OrderUpdateSerializer.validate
\* tests the status of the loaded instance, serializer.save() saves it.
UpdateOrder ==
    /\ run.api.pc = "loaded"
    /\ run.api.action = "update"
    /\ LET instance == serializer_update(run.api.mem, run.api.attrs)
       IN  IF run.api.mem.status # "PENDING"
           THEN /\ lastOp' = ApiOp("update", 400)
                /\ orders' = orders
           ELSE IF SaveRaises(instance)
           THEN /\ lastOp' = ApiOp("update", 500)
                /\ orders' = orders
           ELSE /\ lastOp' = ApiOp("update", 200)
                /\ orders' = [o \in {1} |-> OrderSave(instance, now)]
    /\ run' = [run EXCEPT !.api = IdleRequest]
    /\ UNCHANGED <<account, now, checks, daily, triggers, holdings, symbols>>

\* OrderViewSet.destroy from order.delete() on: the row of the primary key is
\* deleted.
DestroyOrder ==
    /\ run.api.pc = "loaded"
    /\ run.api.action = "destroy"
    /\ lastOp' = ApiOp("destroy", 204)
    /\ orders' = [o \in {} |-> NoRow]
    /\ run' = [run EXCEPT !.api = IdleRequest]
    /\ UNCHANGED <<account, now, checks, daily, triggers, holdings, symbols>>

\* process_orders on the store: the PENDING order is dispatched.
DispatchOrder ==
    /\ run.n < MaxRuns
    /\ pending_orders # <<>>
    /\ \E vr \in BatchResps :
         LET o == Head(pending_orders)
             dispatched(s2) ==
                 /\ orders' = [orders EXCEPT ![o] = s2.row]
                 /\ account' = s2.acct
                 /\ daily' = s2.table
                 /\ triggers' = [triggers EXCEPT ![o] = @ + s2.triggered]
                 /\ run' = [run EXCEPT
                              !.n = @ + 1,
                              !.accepted = IF s2.placed /\ s2.placeResult.success
                                           THEN @ + 1 ELSE @]
                 /\ lastOp' = Op("process_order", o, s2)
         IN  dispatched(process_orders_iteration(process_order(EnterOrder(o), vr, now), now))
    /\ now' = now + 1
    /\ UNCHANGED <<checks, holdings, symbols>>

NextOrderApi ==
    \/ \E action \in {"update", "destroy"} : LoadOrder(action)
    \/ UpdateOrder
    \/ DestroyOrder
    \/ DispatchOrder

SpecOrderApi == InitOrderApi /\ [][NextOrderApi]_vars

\* ==== properties ===========================================================
Has(calls, name) == \E i \in 1..Len(calls) : calls[i][1] = name

Count(calls, name) == Cardinality({ i \in 1..Len(calls) : calls[i][1] = name })

\* The position of the first call of that name (0 when there is none).
First(calls, name) ==
    IF Has(calls, name)
    THEN CHOOSE i \in 1..Len(calls) :
            /\ calls[i][1] = name
            /\ \A j \in 1..(i - 1) : calls[j][1] # name
    ELSE 0

\* A request went out to the venue.
Network(calls) ==
    Has(calls, "http_token") \/ Has(calls, "http_order") \/ Has(calls, "http_status")

\* An adapter was resolved or used.
AdapterTouched(calls) ==
    \/ Has(calls, "get_broker_client")
    \/ Has(calls, "place_order")
    \/ Has(calls, "get_order_status")
    \/ Network(calls)

\* The statuses the handler persisted, in order.
RECURSIVE Persisted(_)
Persisted(calls) ==
    IF calls = <<>> THEN <<>>
    ELSE IF Head(calls)[1] = "save"
         THEN <<Head(calls)[2]>> \o Persisted(Tail(calls))
         ELSE Persisted(Tail(calls))

Terminal(status) == status \in {"FILLED", "CANCELLED", "REJECTED"}

AllowedTransitions ==
    { <<"PENDING", "REJECTED">>, <<"PENDING", "PARTIALLY_FILLED">>,
      <<"PARTIALLY_FILLED", "FILLED">>, <<"PARTIALLY_FILLED", "CANCELLED">> }

\* The persisted statuses of the order a step worked on: the status before
\* the step followed by every status the step saved.
StatusChain(before, calls) == <<before>> \o Persisted(calls)

Monotonic(chain) ==
    \A i \in 1..(Len(chain) - 1) :
        chain[i] # chain[i + 1] => <<chain[i], chain[i + 1]>> \in AllowedTransitions

\* C1: over dispatch runs and reconciliation calls with arbitrary venue
\* answers, every change of an order's persisted status is PENDING ->
\* REJECTED or PARTIALLY_FILLED, or PARTIALLY_FILLED -> FILLED or CANCELLED;
\* REJECTED, CANCELLED and FILLED never change.
C1_StatusMonotonic ==
    [][ \A o \in DOMAIN orders :
          /\ lastOp'.order = o => Monotonic(StatusChain(orders[o].status, lastOp'.calls))
          /\ lastOp'.order # o => orders'[o].status = orders[o].status ]_vars

\* C2: a reconciliation call on an order that is FILLED, CANCELLED or
\* REJECTED leaves its persisted row unchanged, whatever the venue reports.
C2_TerminalImmutable ==
    [][ \A o \in DOMAIN orders :
          ( /\ lastOp'.op = "check_order_status"
            /\ lastOp'.order = o
            /\ Terminal(orders[o].status) )
          => orders'[o] = orders[o] ]_vars

\* The order the last handler worked on.
LastOrder == orders[lastOp.order]

Dispatched == lastOp.op = "process_order"

SideDisabled(order, acct) ==
    \/ order.side = "BUY" /\ ~acct.buy_enabled
    \/ order.side = "SELL" /\ ~acct.sell_enabled

\* quantity x price (0 when unknown) exceeds the ceiling of the account.
OverCeiling(order, acct) ==
    /\ order.side = "BUY"
    /\ acct.investment_limit # Null
    /\ order.quantity * OrZero(order.price) > Val(acct.investment_limit)

\* C3: dispatch of a PENDING order whose side is disabled on its account
\* persists it as REJECTED and neither resolves nor calls an adapter.
C3_DisabledSideRejected ==
    (Dispatched /\ SideDisabled(LastOrder, account))
    => (LastOrder.status = "REJECTED" /\ ~AdapterTouched(lastOp.calls))

\* C4: dispatch of a PENDING BUY order whose quantity x price exceeds the
\* investment ceiling of its account (any ceiling, 0 included) persists it as
\* REJECTED and never resolves an adapter.
C4_OverCeilingRejected ==
    (Dispatched /\ OverCeiling(LastOrder, account))
    => (LastOrder.status = "REJECTED" /\ ~AdapterTouched(lastOp.calls))

\* C5: dispatch of a PENDING LIMIT order without a price persists it as
\* REJECTED before any adapter is resolved or called: no token request and no
\* order request is sent for it.
C5_LimitWithoutPriceRejected ==
    (Dispatched /\ LastOrder.order_type = "LIMIT" /\ LastOrder.price = Null)
    => (LastOrder.status = "REJECTED" /\ ~AdapterTouched(lastOp.calls))

\* C6: when the adapter cannot be constructed for an order of the batch, the
\* order is persisted as REJECTED, no exception escapes process_orders, and
\* the loop goes on to the next order.
C6_ConstructionFailureRejected ==
    ( /\ Dispatched
      /\ Has(lastOp.calls, "get_broker_client")
      /\ get_broker_client(account) = "ValueError" )
    => (LastOrder.status = "REJECTED" /\ ~lastOp.escaped /\ run.pc = "loop")

RunEnded == run.pc \in {"returned", "raised"}

\* C7: when a dispatch run ends, no order it picked up is still PENDING.
C7_NoPickedOrderLeftPending ==
    RunEnded => \A o \in run.picked : orders[o].status # "PENDING"

\* C8: within a dispatch run, processing one order changes no other order's
\* row, and the run does not end before every order of the batch has been
\* processed, whatever failed on the way.
C8_OrdersIndependent ==
    [][ /\ lastOp'.op = "process_order" =>
              \A o \in DOMAIN orders : o # lastOp'.order => orders'[o] = orders[o]
        /\ run'.pc \in {"returned", "raised"} => run'.batch = <<>> ]_vars

\* C9: when process_orders returns, its value is the number of orders that
\* were PENDING when the run started, rejected ones included.
C9_ReturnsAttemptedCount ==
    run.pc = "returned" => run.ret = Some(Cardinality(run.picked))

C9_Witness ==
    /\ run.pc = "returned"
    /\ run.ret = Some(MaxOrders)
    /\ \E o \in run.picked : orders[o].status = "REJECTED"
    /\ \E o \in run.picked : orders[o].status \in {"PARTIALLY_FILLED", "FILLED"}

\* C10: when place_order reports success, the returned id (if any) becomes
\* the order's external_order_id, the status is saved as PARTIALLY_FILLED,
\* and only after that save check_order_status is called, once and with the
\* adapter already in hand: the registry is resolved exactly once.
C10_SubmitThenReconcile ==
    (Dispatched /\ lastOp.placed /\ lastOp.placeResult.success)
    => /\ lastOp.placeResult.order_id # Null =>
              LastOrder.external_order_id = lastOp.placeResult.order_id
       /\ Has(lastOp.calls, "save")
       /\ lastOp.calls[First(lastOp.calls, "save")][2] = "PARTIALLY_FILLED"
       /\ Count(lastOp.calls, "check_order_status") = 1
       /\ First(lastOp.calls, "save") < First(lastOp.calls, "check_order_status")
       /\ Count(lastOp.calls, "get_broker_client") = 1

\* C11: when place_order reports failure during dispatch, the order is
\* persisted as REJECTED, its external_order_id stays unset and
\* get_order_status is never called for it.
C11_PlaceFailureRejected ==
    [][ ( /\ lastOp'.op = "process_order"
          /\ lastOp'.placed
          /\ ~lastOp'.placeResult.success )
        => /\ orders'[lastOp'.order].status = "REJECTED"
           /\ orders[lastOp'.order].external_order_id = Null
                 => orders'[lastOp'.order].external_order_id = Null
           /\ ~Has(lastOp'.calls, "get_order_status") ]_vars

\* check_order_status ran and got no successful status answer: no adapter
\* could be resolved, or get_order_status reported failure.
CheckFailed(op) ==
    /\ op.checked
    /\ ~Has(op.calls, "get_order_status") \/ ~op.statusResult.success

\* C12: a check_order_status call that resolves no adapter, or whose
\* get_order_status reports failure, leaves the persisted row of the order as
\* it was when the call began (the status moves to no terminal state), changes
\* no other order, and raises nothing.
C12_FailedCheckLeavesOrder ==
    [][ CheckFailed(lastOp') =>
          /\ ~lastOp'.escaped
          /\ orders'[lastOp'.order] = lastOp'.atCheck
          /\ lastOp'.op = "check_order_status" => orders' = orders ]_vars

C12_Witness ==
    /\ lastOp.op = "check_order_status"
    /\ CheckFailed(lastOp)
    /\ Has(lastOp.calls, "http_status")
    /\ LastOrder.status = "PARTIALLY_FILLED"

\* check_order_status ran and get_order_status reported success.
CheckSucceeded(op) ==
    op.checked /\ Has(op.calls, "get_order_status") /\ op.statusResult.success

AveragePrice(data) == IF data.avg_price > 0 THEN Some(data.avg_price) ELSE Null

\* C13: on every venue with an adapter, after a successful get_order_status
\* the persisted order follows the payload: done gives FILLED with
\* filled_quantity, average_filled_price (null unless positive) and filled_at;
\* cancel gives CANCELLED; a positive executed volume otherwise gives
\* PARTIALLY_FILLED with quantity and price; any other payload leaves the
\* status as it was.
C13_PayloadMapping ==
    CheckSucceeded(lastOp) =>
        LET data == lastOp.statusResult.data
            order == LastOrder
        IN  IF data.kind # "dict"
            THEN order.status = lastOp.atCheck.status
            ELSE IF data.state = "done"
            THEN /\ order.status = "FILLED"
                 /\ order.filled_quantity = data.executed_volume
                 /\ order.average_filled_price = AveragePrice(data)
                 /\ order.filled_at # Null
            ELSE IF data.state = "cancel"
            THEN order.status = "CANCELLED"
            ELSE IF data.executed_volume > 0
            THEN /\ order.status = "PARTIALLY_FILLED"
                 /\ order.filled_quantity = data.executed_volume
                 /\ order.average_filled_price = AveragePrice(data)
            ELSE order.status = lastOp.atCheck.status

\* C14: over the reconciliation calls on a SELL order the profit
\* recomputation is triggered at most once in all, and a call triggers it
\* exactly when it moves the persisted status into FILLED from a status that
\* was not FILLED.
C14_ProfitTriggeredOnce ==
    [][ \A o \in DOMAIN orders :
          orders[o].side = "SELL" =>
            /\ triggers'[o] <= 1
            /\ (lastOp'.checked /\ lastOp'.order = o) =>
                 ( lastOp'.triggered = 1
                   <=> ( /\ lastOp'.atCheck.status # "FILLED"
                         /\ orders'[o].status = "FILLED" ) ) ]_vars

\* The DailyRealizedProfit row of the day on which the order filled agrees
\* with the FILLED SELL orders now in the store.
DailyRowCurrent(order) ==
    /\ order.filled_at # Null
    /\ LET d == DateOf(Val(order.filled_at))
           p == calculate_daily_realized_profit(orders, order.account, d)
       IN  \E r \in daily :
             /\ r.account = order.account
             /\ r.date = d
             /\ r.realized_profit = p.realized_profit
             /\ r.total_sell_amount = p.total_sell_amount

\* C15: when check_order_status triggers the profit recomputation for a
\* newly FILLED SELL order, the FILLED row is already persisted at that
\* moment, so the DailyRealizedProfit row it writes counts this sell; and an
\* exception of the recomputation does not keep the order from being
\* persisted as FILLED.
C15_ProfitAfterCommit ==
    lastOp.triggered > 0 =>
        /\ lastOp.atTrigger.status = "FILLED"
        /\ ~lastOp.profitRaised => DailyRowCurrent(LastOrder)
        /\ lastOp.profitRaised => (~lastOp.escaped /\ LastOrder.status = "FILLED")

\* The sum of f over S.
RECURSIVE Sum(_, _)
Sum(f, S) ==
    IF S = {} THEN 0
    ELSE LET x == CHOOSE y \in S : TRUE
         IN  f[x] + Sum(f, S \ {x})

Min(a, b) == IF a <= b THEN a ELSE b

Max(a, b) == IF a >= b THEN a ELSE b

\* The FILLED BUY orders of the account and symbol of the sell that filled
\* strictly before it.
EarlierBuys(sell) ==
    { b \in DOMAIN orders :
        /\ orders[b].account = sell.account
        /\ orders[b].symbol = sell.symbol
        /\ orders[b].side = "BUY"
        /\ orders[b].status = "FILLED"
        /\ Val(orders[b].filled_at) < Val(sell.filled_at) }

\* b1 is consumed before b2.
Older(b1, b2) ==
    \/ Val(orders[b1].filled_at) < Val(orders[b2].filled_at)
    \/ Val(orders[b1].filled_at) = Val(orders[b2].filled_at) /\ b1 < b2

\* The quantity of buy b that the sell consumes: what is left of the sell
\* after the older buys, up to the filled quantity of b.
Consumed(sell, b) ==
    LET older == { c \in EarlierBuys(sell) : Older(c, b) }
        before == Sum([c \in older |-> orders[c].filled_quantity], older)
    IN  Min(orders[b].filled_quantity, Max(0, sell.filled_quantity - before))

MatchedCost(sell) ==
    LET buys == EarlierBuys(sell)
    IN  Sum([b \in buys |-> Consumed(sell, b) * OrZero(orders[b].average_filled_price)],
            buys)

\* A FILLED SELL order whose filled quantity and average price are known.
KnownSell(order) ==
    /\ order.side = "SELL"
    /\ order.status = "FILLED"
    /\ order.filled_quantity > 0
    /\ order.average_filled_price # Null
    /\ Val(order.average_filled_price) > 0

RealizedProfit(order) ==
    IF KnownSell(order)
    THEN order.filled_quantity * Val(order.average_filled_price) - MatchedCost(order)
    ELSE 0

\* C16: calculate_realized_profit_for_order returns, for a FILLED SELL order
\* with known quantity and price, quantity x price minus the cost of the
\* FILLED BUY orders of the same account and symbol that filled strictly
\* before it, consumed oldest first, each up to its filled quantity; for any
\* other order it returns 0.
C16_RealizedProfitForOrder ==
    lastOp.op = "calculate_realized_profit_for_order" =>
        /\ ~lastOp.result.raised
        /\ lastOp.result.value = RealizedProfit(orders[lastOp.order])

\* The FILLED SELL orders of the account that filled on the date.
SellsOfDay(acct, date) ==
    { o \in DOMAIN orders :
        /\ orders[o].account = acct
        /\ orders[o].side = "SELL"
        /\ orders[o].status = "FILLED"
        /\ DateOf(Val(orders[o].filled_at)) = date }

SellAmount(order) ==
    order.filled_quantity * OrZero(order.average_filled_price)

\* C17: calculate_daily_realized_profit(account, date) returns the sum of the
\* realized profit of the account's FILLED SELL orders that filled on the
\* date, the sum of their quantity x price as total_sell_amount, the rate
\* realized_profit / total_sell_amount x 100 (0 without sells), and 0 as
\* total_buy_amount.
C17_DailyRealizedProfit ==
    lastOp.op = "calculate_daily_realized_profit" =>
        LET sells == SellsOfDay(lastOp.account, lastOp.date)
            profit == Sum([o \in sells |-> RealizedProfit(orders[o])], sells)
            amount == Sum([o \in sells |-> SellAmount(orders[o])], sells)
            res == lastOp.result
        IN  /\ ~res.raised
            /\ res.realized_profit = profit
            /\ res.total_sell_amount = amount
            /\ res.total_buy_amount = 0
            /\ res.realized_profit_rate =
                  IF amount > 0 THEN Rate(profit, amount) ELSE 0

RowsOf(table, acct, date) == { r \in table : r.account = acct /\ r.date = date }

\* C18: after a run of update_daily_realized_profit for (account, date)
\* there is exactly one DailyRealizedProfit row of that key, the rows of the
\* other keys are untouched, and with the fills unchanged a run on a key that
\* has its row leaves that row as it was.
C18_DailyProfitIdempotent ==
    [][ lastOp'.op = "update_daily_realized_profit" =>
          LET a == lastOp'.account
              d == lastOp'.date
          IN  /\ Cardinality(RowsOf(daily', a, d)) = 1
              /\ daily' \ RowsOf(daily', a, d) = daily \ RowsOf(daily, a, d)
              /\ (orders' = orders /\ RowsOf(daily, a, d) # {})
                    => RowsOf(daily', a, d) = RowsOf(daily, a, d) ]_vars

Range(q) == { q[i] : i \in DOMAIN q }

\* The tickers a snapshot reports with a quantity above 0.
ReportedTickers(holdings_data) ==
    { p.ticker : p \in { r \in Range(holdings_data) : r.ticker # "" /\ r.quantity > 0 } }

HoldingsOf(table, id) == { h \in table : h.account = id }

\* C19: after update_holdings(account, snapshot) the Holdings of the account
\* are the tickers the snapshot reported with quantity > 0, one Holding each
\* and none at quantity 0 (a held ticker reported with 0 or not reported is
\* deleted), and the Holdings of the other accounts are as they were.
C19_HoldingsMatchSnapshot ==
    [][ lastOp'.op = "update_holdings" =>
          LET own == HoldingsOf(holdings', lastOp'.account)
              reported == ReportedTickers(lastOp'.holdings_data)
          IN  /\ { h.ticker : h \in own } = reported
              /\ \A t \in reported : Cardinality({ h \in own : h.ticker = t }) = 1
              /\ \A h \in own : h.quantity > 0
              /\ holdings' \ own = holdings \ HoldingsOf(holdings, lastOp'.account) ]_vars

\* X was held and is reported with quantity 0, Y was held and is not
\* reported: both are gone, and the X of the other account is kept.
C19_Witness ==
    /\ lastOp.op = "update_holdings"
    /\ { h.ticker : h \in HoldingsOf(lastOp.before, 1) } = {"X", "Y"}
    /\ lastOp.holdings_data = << Position("X", 0, 60, 50, "KRW") >>
    /\ HoldingsOf(holdings, 1) = {}
    /\ HoldingsOf(holdings, 2) # {}

\* The value of a price that falls back to the other price when it is 0.
Fallback(price, other) == IF price = 0 THEN other ELSE price

\* The last position of the snapshot that reports ticker t with a quantity
\* above 0.
LastReported(holdings_data, t) ==
    LET at == { i \in DOMAIN holdings_data :
                  holdings_data[i].ticker = t /\ holdings_data[i].quantity > 0 }
    IN  holdings_data[CHOOSE i \in at : \A j \in at : j <= i]

\* C20: for a position reported with quantity > 0, the persisted
\* current_price and average_price each fall back to the other when reported
\* as 0, and the persisted total_value is quantity x current price as
\* persisted (x average price when there is no current price).
C20_PriceFallback ==
    lastOp.op = "update_holdings" =>
        \A t \in ReportedTickers(lastOp.holdings_data) :
            LET p == LastReported(lastOp.holdings_data, t)
                cur == Fallback(p.current_price, p.average_price)
                avg == Fallback(p.average_price, p.current_price)
            IN  /\ \E h \in HoldingsOf(holdings, lastOp.account) : h.ticker = t
                /\ \A h \in HoldingsOf(holdings, lastOp.account) :
                      h.ticker = t =>
                        /\ h.quantity = p.quantity
                        /\ h.current_price = cur
                        /\ h.average_price = avg
                        /\ h.total_value = p.quantity * (IF cur > 0 THEN cur ELSE avg)

\* A position reported with current_price 0 and average_price 50 is stored
\* with current_price 50 and total_value quantity x 50.
C20_Witness ==
    /\ lastOp.op = "update_holdings"
    /\ Position("X", 2, 0, 50, "USD") \in Range(lastOp.holdings_data)
    /\ \E h \in HoldingsOf(holdings, 1) :
          /\ h.ticker = "X"
          /\ h.quantity = 2
          /\ h.current_price = 50
          /\ h.total_value = 100

\* ---- the same properties on the orders that Order.save accepts -----------
\* Every order in the store passes the validation of Order.save.
Savable == \A o \in DOMAIN orders : ~SaveRaises(orders[o])

\* With savable orders, dispatch alone keeps every status change on the
\* allowed transitions.
Savable_DispatchMonotonic ==
    [][ (Savable /\ lastOp'.op = "process_order") =>
            Monotonic(StatusChain(orders[lastOp'.order].status, lastOp'.calls)) ]_vars

\* With savable orders, a disabled side rejects without touching an adapter.
Savable_DisabledSideRejected == Savable => C3_DisabledSideRejected

\* With savable orders and a ceiling other than 0, an order over the ceiling
\* is rejected without touching an adapter.
Savable_OverCeilingRejected ==
    (Savable /\ account.investment_limit # Some(0)) => C4_OverCeilingRejected

\* With savable orders, a construction failure rejects the order and the
\* loop goes on.
Savable_ConstructionFailureRejected == Savable => C6_ConstructionFailureRejected

\* With savable orders, no picked order is PENDING when the run ends.
Savable_NoPickedOrderLeftPending == Savable => C7_NoPickedOrderLeftPending

\* With savable orders, a run never ends by an exception.
Savable_RunReturns == Savable => run.pc # "raised"

\* With savable orders, a successful submission is saved, then reconciled
\* with the adapter in hand.
Savable_SubmitThenReconcile == Savable => C10_SubmitThenReconcile

\* With savable orders, a failed submission rejects the order.
Savable_PlaceFailureRejected ==
    [][ ( /\ Savable
          /\ lastOp'.op = "process_order"
          /\ lastOp'.placed
          /\ ~lastOp'.placeResult.success )
        => /\ orders'[lastOp'.order].status = "REJECTED"
           /\ orders[lastOp'.order].external_order_id = Null
                 => orders'[lastOp'.order].external_order_id = Null
           /\ ~Has(lastOp'.calls, "get_order_status") ]_vars

\* The account is served by the venue whose payload check_order_status maps.
UpbitAccount == account.broker.is_crypto_exchange /\ account.broker.upbit_in_name

\* With savable orders on that venue, the persisted order follows the payload.
Savable_UpbitPayloadMapping == (Savable /\ UpbitAccount) => C13_PayloadMapping

\* With savable orders, a reconciliation call triggers the profit
\* recomputation exactly when it moves a SELL order into FILLED.
Savable_TriggerOnFill ==
    [][ (Savable /\ lastOp'.checked) =>
          ( lastOp'.triggered = 1
            <=> ( /\ orders[lastOp'.order].side = "SELL"
                  /\ lastOp'.atCheck.status # "FILLED"
                  /\ orders'[lastOp'.order].status = "FILLED" ) ) ]_vars

\* ---- the profit calculator on stores whose fills all have a price --------
\* Every FILLED BUY order in the store has an average price.
Priced ==
    \A o \in DOMAIN orders :
        (orders[o].side = "BUY" /\ orders[o].status = "FILLED")
        => orders[o].average_filled_price # Null

Priced_RealizedProfitForOrder == Priced => C16_RealizedProfitForOrder

Priced_DailyRealizedProfit == Priced => C17_DailyRealizedProfit

Priced_DailyProfitIdempotent ==
    [][ (Priced /\ lastOp'.op = "update_daily_realized_profit") =>
          LET a == lastOp'.account
              d == lastOp'.date
          IN  /\ Cardinality(RowsOf(daily', a, d)) = 1
              /\ daily' \ RowsOf(daily', a, d) = daily \ RowsOf(daily, a, d)
              /\ RowsOf(daily, a, d) # {}
                    => RowsOf(daily', a, d) = RowsOf(daily, a, d) ]_vars

\* BUY 10@100 then SELL 10@150 gives 500.
Example_OneLot ==
    /\ lastOp.op = "calculate_realized_profit_for_order"
    /\ orders[lastOp.order] = FilledOrder(1, "A", "SELL", "FILLED", 10, Some(150), Some(5))
    /\ { orders[b] : b \in EarlierBuys(orders[lastOp.order]) }
         = { FilledOrder(1, "A", "BUY", "FILLED", 10, Some(100), Some(1)) }
    /\ Cardinality(EarlierBuys(orders[lastOp.order])) = 1
    /\ lastOp.result = [raised |-> FALSE, value |-> 500]

\* BUY 5@100, BUY 5@120 then SELL 10@150 gives 400.
Example_TwoLots ==
    /\ lastOp.op = "calculate_realized_profit_for_order"
    /\ orders[lastOp.order] = FilledOrder(1, "A", "SELL", "FILLED", 10, Some(150), Some(5))
    /\ { orders[b] : b \in EarlierBuys(orders[lastOp.order]) }
         = { FilledOrder(1, "A", "BUY", "FILLED", 5, Some(100), Some(2)),
             FilledOrder(1, "A", "BUY", "FILLED", 5, Some(120), Some(3)) }
    /\ Cardinality(EarlierBuys(orders[lastOp.order])) = 2
    /\ lastOp.result = [raised |-> FALSE, value |-> 400]

\* ---- Holding.save, currencies, the registry, the KIS token -----------------
\* The row a Holding.save of obj has persisted.
SavedRow(obj) ==
    CHOOSE h \in holdings : h.account = obj.account /\ h.ticker = obj.ticker

\* C21: after a Holding save the persisted total_value, profit_loss and
\* profit_rate follow from quantity, average_price and current_price alone:
\* total_value is quantity x current_price (x average_price without a current
\* price), profit_loss is value - cost and profit_rate its percentage of the
\* cost; with quantity 0 the profit fields are 0 and no derived value of the
\* caller survives.
C21_HoldingDerivedFields ==
    lastOp.op = "Holding.save" =>
        LET obj == lastOp.obj
            h == SavedRow(obj)
            price == IF obj.current_price > 0 THEN obj.current_price
                     ELSE obj.average_price
            cost == obj.quantity * obj.average_price
        IN  /\ h.total_value = obj.quantity * price
            /\ cost > 0 => /\ h.profit_loss = obj.quantity * price - cost
                            /\ h.profit_rate = Rate(obj.quantity * price - cost, cost)
            /\ obj.quantity = 0 => h.profit_loss = 0 /\ h.profit_rate = 0

\* With a positive quantity and a price the derived fields are recomputed.
Held_HoldingDerivedFields ==
    ( /\ lastOp.op = "Holding.save"
      /\ lastOp.obj.quantity > 0
      /\ lastOp.obj.current_price > 0 \/ lastOp.obj.average_price > 0 )
        => C21_HoldingDerivedFields

\* With quantity 0 the profit fields are reset.
Liquidated_ProfitReset ==
    (lastOp.op = "Holding.save" /\ lastOp.obj.quantity = 0)
        => SavedRow(lastOp.obj).profit_loss = 0 /\ SavedRow(lastOp.obj).profit_rate = 0

\* The currency codes update_holdings can store on a Symbol.
CurrencyCodes == {"KRW", "USD", "USDT"}

\* The last position of the snapshot that names ticker t.
LastNamed(holdings_data, t) ==
    LET at == { i \in DOMAIN holdings_data : holdings_data[i].ticker = t }
    IN  holdings_data[CHOOSE i \in at : \A j \in at : j <= i]

\* C22: after update_holdings has processed a reported position, its Symbol
\* carries the currency code the venue reported (KRW, USD or USDT), the default
\* of the account type (USDT for a crypto exchange, KRW otherwise) being used
\* only when the reported code is none of these; an existing Symbol with
\* another currency is corrected.
C22_SymbolCurrency ==
    lastOp.op = "update_holdings" =>
        \A t \in { p.ticker : p \in Range(lastOp.holdings_data) } \ {""} :
            LET p == LastNamed(lastOp.holdings_data, t)
                expected == IF p.currency \in CurrencyCodes THEN p.currency
                            ELSE IF account.broker.is_crypto_exchange THEN "USDT"
                            ELSE "KRW"
            IN  /\ \E y \in symbols : y.ticker = t
                /\ \A y \in symbols : y.ticker = t => y.currency = expected

\* On a securities account the Symbol carries the reported code, and on a
\* crypto exchange it does for the codes USD and USDT.
Reported_SymbolCurrency ==
    lastOp.op = "update_holdings" =>
        \A t \in { p.ticker : p \in Range(lastOp.holdings_data) } \ {""} :
            LET p == LastNamed(lastOp.holdings_data, t)
            IN  (~account.broker.is_crypto_exchange \/ p.currency # "KRW")
                  => /\ \E y \in symbols : y.ticker = t
                     /\ \A y \in symbols : y.ticker = t => y.currency = p.currency

\* An existing KRW Symbol whose position is reported in USD has been corrected.
Example_CurrencyCorrected ==
    /\ lastOp.op = "update_holdings"
    /\ \E h \in lastOp.before : h.account = 1 /\ h.ticker = "X"
    /\ \E p \in Range(lastOp.holdings_data) : p.ticker = "X"
    /\ [ticker |-> "X", currency |-> "USD"] \in symbols

\* C23: get_broker_client returns the Upbit adapter for (crypto exchange,
\* UPBIT), the BingX adapter for (crypto exchange, BINGX) and the KIS adapter
\* for (securities, KIS), the code being read without regard to case; for any
\* other pair, or when the API key and secret (for KIS also the account
\* number) are absent, it raises the configuration error and returns no
\* adapter.
C23_Registry ==
    lastOp.op = "get_broker_client" =>
        LET b == account.broker
            code == upper(b.code)
            adapter == IF b.is_crypto_exchange /\ code = "UPBIT" THEN "UpbitClient"
                       ELSE IF b.is_crypto_exchange /\ code = "BINGX" THEN "BingXClient"
                       ELSE IF ~b.is_crypto_exchange /\ code = "KIS" THEN "KisClient"
                       ELSE "ValueError"
            credentials == /\ account.has_api_key_secret
                           /\ adapter = "KisClient" => account.has_account_number
        IN  lastOp.client = IF adapter # "ValueError" /\ credentials THEN adapter
                            ELSE "ValueError"

\* A KIS account with key and secret but no account number got the
\* configuration error.
C23_Witness ==
    /\ lastOp.op = "get_broker_client"
    /\ account.broker.code = "KIS" /\ ~account.broker.is_crypto_exchange
    /\ account.has_api_key_secret /\ ~account.has_account_number
    /\ lastOp.client = "ValueError"

\* The cached token fields of an Account row.
TokenFields(acct) ==
    [access_token |-> acct.access_token, token_expires_at |-> acct.token_expires_at]

\* C24: over a sequence of KIS adapter requests, the venue is asked for a
\* token only when the Account has no cached access_token or the time is at or
\* past token_expires_at, and a cached unexpired token is reused without a
\* token request; a successful issue stores the token with an expiry 23 hours
\* after the issue, and a failed issue leaves the cached token fields
\* unchanged.
C24_TokenCache ==
    lastOp.op = "_get_access_token" =>
        LET before == lastOp.before
            due == \/ before.access_token = Null
                   \/ lastOp.at >= Val(before.token_expires_at)
        IN  /\ Has(lastOp.calls, "http_token") <=> due
            /\ ~due => /\ lastOp.token = before.access_token
                       /\ TokenFields(account) = TokenFields(before)
            /\ (due /\ lastOp.issued # Null) =>
                   /\ lastOp.token = lastOp.issued
                   /\ account.access_token = lastOp.issued
                   /\ account.token_expires_at = Some(lastOp.at + TokenLifetime)
            /\ (due /\ lastOp.issued = Null) =>
                   /\ lastOp.token = Null
                   /\ TokenFields(account) = TokenFields(before)

\* A token is issued again at the hour of the expiry of the cached one.
C24_Witness ==
    /\ lastOp.op = "_get_access_token"
    /\ lastOp.before.access_token = Some("T1")
    /\ lastOp.at = Val(lastOp.before.token_expires_at)
    /\ account.access_token = Some("T2")
    /\ account.token_expires_at = Some(lastOp.at + TokenLifetime)

\* A cached token is reused in the last hour before its expiry.
Example_ReusedBeforeExpiry ==
    /\ lastOp.op = "_get_access_token"
    /\ lastOp.before.access_token # Null
    /\ lastOp.at + 1 = Val(lastOp.before.token_expires_at)
    /\ ~Has(lastOp.calls, "http_token")

\* C25: the refresh of the token is a critical section per account: two
\* concurrent requests that find the cached token missing or expired never
\* both issue a token (at most one token is issued per expiry).
C25_TokenRefreshExclusive ==
    lastOp.op = "_get_access_token" => Count(lastOp.calls, "save_token") <= 1

\* Both requests have sent a token request for the same expiry.
Example_BothRequested ==
    /\ lastOp.op = "_get_access_token"
    /\ \A p \in Requests : run[p].pc = "posting"

\* ---- the account updates ---------------------------------------------------
\* Account.cash_balance, Account.stock_value, Account.total_assets: the
\* properties return the KRW columns.
cash_balance(acct) == acct.cash_balance_krw

stock_value(acct) == acct.stock_value_krw

total_assets(acct) == acct.total_assets_krw

\* The persisted balance columns of an Account row.
Balances(acct) == [f \in DOMAIN StaleBalances |-> acct[f]]

\* The accounts of the last job whose information was actually updated.
ActuallyUpdated ==
    { id \in DOMAIN lastOp.outcomes :
        /\ lastOp.outcomes[id].attempted
        /\ ~lastOp.outcomes[id].raised
        /\ ~lastOp.outcomes[id].skipped }

\* C27: update_accounts_info attempts every account even when an earlier
\* account's update fails, and returns the number of accounts whose
\* information was actually updated; accounts whose update failed or was
\* skipped (missing credentials) are not counted, so the job's
\* 'updated < total' notification fires for them.
C27_UpdatedCount ==
    lastOp.op = "update_accounts_info_job" =>
        /\ \A id \in DOMAIN lastOp.outcomes : lastOp.outcomes[id].attempted
        /\ lastOp.updated_count = Cardinality(ActuallyUpdated)
        /\ (ActuallyUpdated # DOMAIN lastOp.outcomes) => lastOp.notified # <<>>

\* update_accounts_info attempts every account, and counts the accounts whose
\* update did not raise; the job notifies exactly when some update raised.
Attempted_CountsNotRaised ==
    lastOp.op = "update_accounts_info_job" =>
        LET returned == { id \in DOMAIN lastOp.outcomes : ~lastOp.outcomes[id].raised }
        IN  /\ \A id \in DOMAIN lastOp.outcomes : lastOp.outcomes[id].attempted
            /\ lastOp.updated_count = Cardinality(returned)
            /\ (lastOp.notified # <<>>) <=> (returned # DOMAIN lastOp.outcomes)

\* The first account visited failed and a later one was updated.
Example_LaterAccountUpdated ==
    /\ lastOp.op = "update_accounts_info_job"
    /\ lastOp.outcomes[MaxAccounts].raised
    /\ 1 \in ActuallyUpdated

\* C28: update_account_info raises when the adapter reports a failed snapshot
\* (success false), leaving the account's persisted balances and holdings
\* unchanged; when the construction of the adapter fails with a configuration
\* error it returns without raising and without modifying the account or its
\* holdings.
C28_FailedSnapshot ==
    lastOp.op = "update_account_info" =>
        /\ (~lastOp.skipped /\ ~lastOp.result.success) =>
               /\ lastOp.raised
               /\ Balances(account[lastOp.account]) = Balances(lastOp.before)
               /\ holdings = lastOp.held
        /\ lastOp.skipped =>
               /\ ~lastOp.raised
               /\ account[lastOp.account] = lastOp.before
               /\ holdings = lastOp.held

\* The adapter of an account with balances and a position of an earlier sync
\* reported a failed snapshot.
C28_Witness ==
    /\ lastOp.op = "update_account_info"
    /\ ~lastOp.skipped /\ ~lastOp.result.success /\ lastOp.raised
    /\ lastOp.before.total_assets_krw > 0
    /\ \E h \in lastOp.held : h.account = lastOp.account

\* The construction of the adapter failed with the configuration error.
Example_SkippedAccount ==
    /\ lastOp.op = "update_account_info"
    /\ lastOp.skipped
    /\ \E h \in holdings : h.account = lastOp.account

\* C29: after update_account_info succeeds, the account's cash_balance,
\* stock_value and total_assets equal the cash_balance, stock_value and
\* total_assets of the adapter's snapshot, for every adapter.
C29_SnapshotBalances ==
    (/\ lastOp.op = "update_account_info"
     /\ ~lastOp.raised /\ ~lastOp.skipped) =>
        LET account_ == account[lastOp.account]
        IN  /\ cash_balance(account_) = lastOp.result.cash_balance
            /\ stock_value(account_) = lastOp.result.stock_value
            /\ total_assets(account_) = lastOp.result.total_assets

\* After update_account_info succeeds, the six currency columns of the account
\* equal the columns of the same name of the adapter's snapshot.
Stored_CurrencyColumns ==
    (/\ lastOp.op = "update_account_info"
     /\ ~lastOp.raised /\ ~lastOp.skipped) =>
        \A f \in DOMAIN StaleBalances \ {"profit_rate"} :
            account[lastOp.account][f] = lastOp.result[f]

\* The unified balances equal the snapshot for the adapters that report KRW.
Won_SnapshotBalances ==
    (/\ lastOp.op = "update_account_info"
     /\ ~lastOp.raised /\ ~lastOp.skipped
     /\ upper(lastOp.before.broker.code) # "BINGX") =>
        LET account_ == account[lastOp.account]
        IN  /\ cash_balance(account_) = lastOp.result.cash_balance
            /\ stock_value(account_) = lastOp.result.stock_value
            /\ total_assets(account_) = lastOp.result.total_assets

\* ---- the scheduler jobs ----------------------------------------------------
JobNames ==
    { "process_orders_job", "update_accounts_info_job",
      "calculate_daily_profit_job", "crawl_symbols_job" }

\* C26: each scheduler job entry point (process_orders_job,
\* update_accounts_info_job, calculate_daily_profit_job, crawl_symbols_job)
\* never propagates an exception: when its task raises, the job returns
\* normally after emitting exactly one failure notification.
C26_JobsContainErrors ==
    lastOp.op \in JobNames =>
        /\ ~lastOp.propagated
        /\ lastOp.task.raised => lastOp.notified = <<"failure">>

\* The task of a job raised.
C26_Witness ==
    /\ lastOp.op = "update_accounts_info_job"
    /\ lastOp.task.raised
    /\ lastOp.delivered = <<"failure">>

\* A job whose task returned sends no failure notification.
Returned_NoFailureNotice ==
    (lastOp.op \in JobNames /\ ~lastOp.task.raised) =>
        \A i \in DOMAIN lastOp.notified : lastOp.notified[i] # "failure"

\* The task raised and no bot is configured: nothing reaches the chat.
Example_FailureUndelivered ==
    /\ lastOp.op \in JobNames
    /\ lastOp.task.raised
    /\ ~run.server_scheduler_telegram
    /\ lastOp.delivered = <<>>

\* ---- transient network errors ----------------------------------------------
\* The order request of the last process_order raised a timeout or a
\* connection failure.
PlaceTimedOut(op) ==
    /\ op.op = "process_order"
    /\ op.placed
    /\ op.placeResult.error = Some("timeout")

\* C30: a transient network error (timeout or connection failure) during a
\* broker call mutates no order state: if it happens while an order is being
\* placed, the order's persisted status stays PENDING and the order is
\* attempted again on the next dispatch cycle.
C30_TimeoutKeepsPending ==
    [][ PlaceTimedOut(lastOp')
        => /\ orders'[lastOp'.order] = orders[lastOp'.order]
           /\ orders'[lastOp'.order].status = "PENDING" ]_vars

\* With savable orders, an order request that timed out rejects the order, as
\* a refusal of the venue does.
Savable_TimeoutRejected ==
    [][ (Savable /\ PlaceTimedOut(lastOp'))
        => orders'[lastOp'.order].status = "REJECTED" ]_vars

\* The next run finds no PENDING order after dispatch rejected the order.
Example_TimedOutNotRetried ==
    /\ lastOp.op = "process_orders"
    /\ run.n = 2
    /\ run.picked = {}
    /\ \E o \in DOMAIN orders : orders[o].status = "REJECTED"

\* ---- overlapping runs, the life of an order ---------------------------------
\* C31: two overlapping dispatch runs can both pick up the same PENDING order
\* and both call place_order for it before either commits a status change: no
\* atomic claim step exists, every run processes every order it finds PENDING,
\* whatever another run holds, so a state in which one order has been
\* submitted to the venue twice is reachable (C31_Witness).
C31_NoClaimStep ==
    \A p \in Runs : run[p].pc # "idle" => run[p].picked = run[p].seen

\* Both runs have sent the order request of order 1 and neither has saved a
\* status: the order is still PENDING in the store.
C31_Witness ==
    /\ lastOp.op = "process_orders"
    /\ \A p \in Runs : run[p].pc = "placed" /\ run[p].res.order = 1
    /\ Count(lastOp.calls, "http_order") = 2
    /\ ~Has(lastOp.calls, "save")
    /\ orders[1].status = "PENDING"

\* C32: an order left unreconciled (PARTIALLY_FILLED after submission, or
\* after a failed status query) is polled again on later scheduled cycles: if
\* the venue from some point on reports the order done or cancelled, the order
\* eventually reaches FILLED or CANCELLED.
C32_EventuallyReconciled ==
    (checks = 1 /\ orders[1].status = "PARTIALLY_FILLED")
        ~> (orders[1].status \in {"FILLED", "CANCELLED"})

\* No scheduled cycle reads or writes an order that is PARTIALLY_FILLED.
Unreconciled_NeverPolled ==
    [][ orders[1].status = "PARTIALLY_FILLED"
        => /\ orders'[1] = orders[1]
           /\ lastOp'.op # "process_order" ]_vars

\* An order submitted while the status query failed is PARTIALLY_FILLED after
\* the venue has settled it.
Example_UnreconciledSettled ==
    /\ checks = 1
    /\ orders[1].status = "PARTIALLY_FILLED"
    /\ lastOp.op = "process_orders"

\* ---- the foreign fan-out, the holdings of a sync ----------------------------
\* The tickers of the positions of a snapshot.
SnapshotTickers(result) == { result.holdings[i].ticker : i \in DOMAIN result.holdings }

\* C33: the KIS foreign-market balance query visits every exchange of its
\* fixed list (NASD, NYSE, AMEX, TSEI, HASE); a timeout, network error, HTTP
\* error or non-success response code on one exchange does not abort the
\* snapshot: the positions of every exchange that answered successfully are
\* still returned and get_account_info still reports success with the
\* domestic positions.
C33_FanOutTolerant ==
    (lastOp.op = "update_account_info" /\ lastOp.account = 1) =>
        /\ lastOp.visited = Exchanges
        /\ lastOp.result.success
        /\ "005930" \in SnapshotTickers(lastOp.result)
        /\ \A e \in ExchangeCodes :
               (lastOp.outcome[e] = "ok" /\ Listed(e) \in lastOp.owned)
                   => Listed(e) \in SnapshotTickers(lastOp.result)

\* The first exchange timed out and the last one answered with a position.
C33_Witness ==
    /\ lastOp.op = "update_account_info" /\ lastOp.account = 1
    /\ lastOp.outcome["NASD"] = "timeout"
    /\ lastOp.outcome["NYSE"] = "http"
    /\ lastOp.outcome["HASE"] = "ok"
    /\ "VNM" \in SnapshotTickers(lastOp.result)

\* C38: a locally tracked Holding is deleted by an account sync only when the
\* venue actually reported the position closed: a failure that the adapter
\* tolerates while building the snapshot (a per-exchange timeout, network or
\* HTTP error in the KIS foreign fan-out, or a failed current-price lookup in
\* the Upbit adapter) never causes the deletion of a Holding the account
\* still owns.
C38_OwnedHoldingKept ==
    lastOp.op = "update_account_info" =>
        \A t \in lastOp.owned :
            (\E h \in lastOp.held : h.account = lastOp.account /\ h.ticker = t)
                => \E h \in holdings : h.account = lastOp.account /\ h.ticker = t

\* When every request of the snapshot was answered, no Holding of a position
\* the account owns is deleted.
Answered_OwnedHoldingKept ==
    (/\ lastOp.op = "update_account_info"
     /\ \A e \in ExchangeCodes : lastOp.outcome[e] = "ok"
     /\ lastOp.account = 2 => lastOp.result.holdings # <<>>)
        => \A t \in lastOp.owned :
               \E h \in holdings : h.account = lastOp.account /\ h.ticker = t

\* The price lookup of the Upbit adapter failed and the Holding of the coin
\* is gone.
Example_UnpricedCoinDeleted ==
    /\ lastOp.op = "update_account_info" /\ lastOp.account = 2
    /\ lastOp.result.success
    /\ ~\E h \in holdings : h.account = 2

\* ---- the account API --------------------------------------------------------
\* C34: after any sequence of account create and update operations, every
\* Account of a non-exchange (securities) broker has a non-empty account
\* number.
C34_SecuritiesAccountNumbered ==
    (account.exists /\ ~is_crypto_exchange(account.broker_id))
        => account.account_number \notin {"None", ""}

\* Every account that create or a full update has just written satisfies the
\* rule.
Written_SecuritiesAccountNumbered ==
    (lastOp.op \in {"create", "update"} /\ lastOp.accepted)
        => C34_SecuritiesAccountNumbered

\* A partial update blanked the number of a securities account.
Example_NumberBlanked ==
    /\ lastOp.op = "partial_update" /\ lastOp.accepted
    /\ lastOp.before.broker_id = "KIS"
    /\ lastOp.before.account_number = "12345678-01"
    /\ account.account_number = ""

\* ---- the life of an order under non-overlapping runs ------------------------
\* C35: with non-overlapping dispatch runs, place_order is called at most once
\* per order over the order's whole life: an order that has been submitted to
\* the venue is never PENDING at the start of a later run, so it is never
\* submitted again.  A run picks exactly the PENDING orders, so this says
\* that a process_order that called place_order leaves the order not PENDING.
C35_PlacedAtMostOnce ==
    [][ (lastOp'.op = "process_order" /\ lastOp'.placed)
        => orders'[lastOp'.order].status # "PENDING" ]_vars

\* With savable orders, every process_order takes the order out of PENDING.
Savable_PlacedAtMostOnce ==
    [][ (Savable /\ lastOp'.op = "process_order")
        => orders'[lastOp'.order].status # "PENDING" ]_vars

\* The second run picks the order again: the first run could not save it.
Example_AcceptedPickedAgain ==
    /\ lastOp.op = "process_orders"
    /\ run.n = 2
    /\ run.picked = {1}

\* C36: an order whose place_order call was accepted by the venue (the adapter
\* returned success) is never persisted as REJECTED: REJECTED always means
\* that no order exists at the venue for it.  Step by step: the process_order
\* that was accepted does not persist REJECTED; an accepted order that stays
\* PENDING is one that Order.save refuses, whose row no later step changes;
\* and an order persisted as PARTIALLY_FILLED, FILLED or CANCELLED is never
\* REJECTED afterwards.
C36_AcceptedNeverRejected ==
    [][ /\ \A o \in DOMAIN orders :
              /\ SaveRaises(orders[o]) => orders'[o] = orders[o]
              /\ orders[o].status \in {"PARTIALLY_FILLED", "FILLED", "CANCELLED"}
                     => orders'[o].status # "REJECTED"
        /\ (/\ lastOp'.op = "process_order"
            /\ lastOp'.placed
            /\ lastOp'.placeResult.success)
           => /\ orders'[lastOp'.order].status # "REJECTED"
              /\ orders'[lastOp'.order].status = "PENDING"
                     => SaveRaises(orders'[lastOp'.order]) ]_vars

\* The venue accepted the order, the save of PARTIALLY_FILLED raised and the
\* handlers set REJECTED on the object without persisting it.
C36_Witness ==
    /\ lastOp.op = "process_order"
    /\ lastOp.placed /\ lastOp.placeResult.success
    /\ lastOp.escaped
    /\ Has(lastOp.calls, "http_order")
    /\ orders[lastOp.order].status = "PENDING"

\* C37: the reconciler and the registry agree on the venue of every account.
\* A reconciliation whose status query answered with a complete fill
\* (state done) applies the Upbit payload mapping, which marks the order
\* FILLED, exactly when the registry returns the Upbit adapter for the account.
DoneAnswered ==
    /\ lastOp.op = "process_order"
    /\ lastOp.checked
    /\ lastOp.statusResult.success
    /\ lastOp.statusResult.data.kind = "dict"
    /\ lastOp.statusResult.data.state = "done"

C37_VenuesAgree ==
    DoneAnswered =>
        (get_broker_client(account) = "UpbitClient"
            <=> orders[lastOp.order].status = "FILLED")

\* The same for the Broker rows whose name contains 'upbit' exactly when
\* their code is UPBIT.
Named_VenuesAgree ==
    (DoneAnswered /\ (account.broker.upbit_in_name <=> upper(account.broker.code) = "UPBIT"))
        => (get_broker_client(account) = "UpbitClient"
               <=> orders[lastOp.order].status = "FILLED")

\* The Upbit adapter reported a complete fill and the order is left
\* PARTIALLY_FILLED.
Example_UpbitFillUnmapped ==
    /\ DoneAnswered
    /\ get_broker_client(account) = "UpbitClient"
    /\ orders[lastOp.order].status = "PARTIALLY_FILLED"

\* The Upbit payload mapping is applied to an order of another adapter.
Example_MappingOnOtherVenue ==
    /\ DoneAnswered
    /\ get_broker_client(account) = "BingXClient"
    /\ orders[lastOp.order].status = "FILLED"

\* C39: on every store of fills the reconciler can persist, FILLED BUY orders
\* without average price included, calculate_realized_profit_for_order
\* returns without raising, and a run of update_daily_realized_profit leaves
\* the daily profit row of its account and date written.
C39_ProfitNeverRaises ==
    /\ lastOp.op = "calculate_realized_profit_for_order" => ~lastOp.result.raised
    /\ lastOp.op = "update_daily_realized_profit" =>
           /\ ~lastOp.raised
           /\ RowsOf(daily, lastOp.account, lastOp.date) # {}

Priced_ProfitNeverRaises == Priced => C39_ProfitNeverRaises

\* The profit of a FILLED SELL is asked for after a FILLED BUY without
\* average price, and the computation raises.
Example_UnpricedBuyRaises ==
    /\ lastOp.op = "calculate_realized_profit_for_order"
    /\ lastOp.result.raised
    /\ orders[lastOp.order].side = "SELL"
    /\ orders[lastOp.order].status = "FILLED"
    /\ \E b \in DOMAIN orders :
          /\ orders[b].side = "BUY" /\ orders[b].status = "FILLED"
          /\ orders[b].average_filled_price = Null

\* C40: an update or a delete through the order API is applied only to an
\* order that is PENDING in the store: once the dispatcher has persisted the
\* order as submitted, no API request returns it to PENDING, erases its
\* external_order_id or deletes it.
C40_ApiOnlyOnPending ==
    [][ (lastOp'.op \in {"update", "destroy"} /\ 1 \in DOMAIN orders)
        => /\ orders' # orders => orders[1].status = "PENDING"
           /\ orders[1].status # "PENDING"
                 => /\ 1 \in DOMAIN orders'
                    /\ orders'[1].status = orders[1].status
                    /\ orders'[1].external_order_id = orders[1].external_order_id ]_vars

\* The same for the requests that save or delete the order as it is in the
\* store at that moment: no dispatch run came between the load and the write.
Current_ApiOnlyOnPending ==
    [][ (/\ lastOp'.op \in {"update", "destroy"}
         /\ 1 \in DOMAIN orders
         /\ run.api.mem = orders[1])
        => (orders' # orders => orders[1].status = "PENDING") ]_vars

\* An update answered 200 has returned a submitted order to PENDING without
\* its external_order_id.
Example_SubmittedReturnedToPending ==
    /\ lastOp.op = "update"
    /\ lastOp.response = 200
    /\ lastOp.before.status = "PARTIALLY_FILLED"
    /\ lastOp.before.external_order_id # Null
    /\ orders[1].status = "PENDING"
    /\ orders[1].external_order_id = Null

\* A delete answered 204 has removed a submitted order.
Example_SubmittedDeleted ==
    /\ lastOp.op = "destroy"
    /\ lastOp.before.status \in {"PARTIALLY_FILLED", "FILLED"}
    /\ 1 \notin DOMAIN orders

\* The venue has accepted two order requests for the one MARKET order: an
\* update returned it to PENDING after the first.
Example_SubmittedTwice ==
    /\ run.accepted = 2
    /\ lastOp.op = "process_order"
    /\ orders[1].order_type = "MARKET"
====
